---- MODULE Spec2Model ----
(***************************************************************************)
(* A model of trix: the 1D interval tree (1dtree/src/1dtree.js) and the    *)
(* raster-to-rectangles pipeline (src/trix.js).                            *)
(*                                                                         *)
(* Objects are kept in arenas and referred to by their index, 0 standing   *)
(* for null. JavaScript values a visitor may return are modelled by the    *)
(* strings "undefined", "false", "true", "r1", "r2".                       *)
(***************************************************************************)
EXTENDS Integers, Sequences, FiniteSets, TLC

VARIABLES
    \* ---- interval tree scenario
    tpc,        \* "new" | "built" | "queried"
    intervals,  \* the list handed to createIntervalTree
    tree,       \* the Node it returned (Null for an empty list)
    qx,         \* the point of the last queryPoint call
    calls,      \* the visitor calls of that query, in order: [item, r]
    result,     \* what the outermost queryPoint returned
    \* ---- raster pipeline
    pc,         \* the position in the pipeline
    err,        \* NoError, or the error that halted the run
    array,      \* the raster: [shape |-> <<rows, cols>>, data |-> rows]
    segs,       \* arena of Segment objects
    points,     \* arena of points: raw [x, y] arrays and Vertex objects
    hsegments,  \* ids of the horizontal segments, in list order
    vsegments,  \* ids of the vertical segments, in list order
    hvertices,  \* ids of the vertices of hsegments
    vvertices,  \* ids of the vertices of vsegments
    concaves,   \* ids of the vertices preprocess returned as concave
    walked,     \* what the last walk() returned (ids of vertices)
    htree,      \* getContours: interval tree over hsegments
    vtree,      \* getContours: interval tree over vsegments
    hdiagonals, \* ids of the horizontal chords getDiagonals made
    vdiagonals, \* ids of the vertical chords getDiagonals made
    crossings,  \* the [horizontal, vertical] pairs findCrossings returned
    selected,   \* ids of the chords selectDiagonals returned
    nsplit,     \* how many of them splitSegment has been called for
    ci,         \* how many entries of concaves the last forEach has seen
    found       \* what the last splitConcave returned (a segment id)

treeVars == <<tpc, intervals, tree, qx, calls, result>>
contourVars == <<htree, vtree, hdiagonals, vdiagonals, crossings, selected,
                 nsplit, ci, found>>
pipeVars == <<pc, err, array, segs, points, hsegments, vsegments,
              hvertices, vvertices, concaves, walked, contourVars>>
vars == <<treeVars, pipeVars>>

-----------------------------------------------------------------------------
(* Bounds *)

\* longest interval list handed to createIntervalTree in the tree scenario
MaxIntervals == 3

\* endpoints of those intervals; 2 and 10 order differently as numbers and
\* as strings
Coords == {1, 2, 10}

\* the points queried: every endpoint, and points below, between and above
QueryPoints == Coords \cup {0, 5, 11}

\* what a visitor may answer: a falsy value and two distinct truthy ones
RetVals == {"false", "r1", "r2"}

-----------------------------------------------------------------------------
(* JavaScript helpers *)

Truthy(v) == v \notin {"undefined", "false"}

\* String(n) for a non-negative integer, as its sequence of digits
RECURSIVE Digits(_)
Digits(n) == IF n < 10 THEN <<n>> ELSE Append(Digits(n \div 10), n % 10)

\* a < b in the order of Array.prototype.sort() without a comparator:
\* the elements are compared as strings, code unit by code unit
StrLess(a, b) ==
    LET da == Digits(a)
        db == Digits(b)
        n == IF Len(da) < Len(db) THEN Len(da) ELSE Len(db)
    IN  \/ \E i \in 1..n : /\ da[i] < db[i]
                           /\ \A j \in 1..(i - 1) : da[j] = db[j]
        \/ /\ Len(da) < Len(db)
           /\ \A j \in 1..n : da[j] = db[j]

\* Array.prototype.sort: the stable arrangement of s in which no element is
\* Less than one before it (elements that compare equal keep their order)
SortWith(s, Less(_, _)) ==
    LET ins[i \in 0..Len(s)] ==
            IF i = 0 THEN <<>>
            ELSE LET p == ins[i - 1]
                     e == s[i]
                     after == {j \in 1..Len(p) : Less(e, p[j])}
                     k == IF after = {} THEN Len(p) + 1
                          ELSE CHOOSE j \in after : \A q \in after : j <= q
                 IN  SubSeq(p, 1, k - 1) \o <<e>> \o SubSeq(p, k, Len(p))
    IN  ins[Len(s)]

-----------------------------------------------------------------------------
(* 1dtree.js *)

Null == [null |-> TRUE]

Node(mid, left, right, leftPoints, rightPoints) ==
    [mid |-> mid, left |-> left, right |-> right,
     leftPoints |-> leftPoints, rightPoints |-> rightPoints]

\* the result of a report or query: the visitor calls made and the value
\* returned
NoCalls == [calls |-> <<>>, ret |-> "undefined"]

Then(a, b) == [calls |-> a.calls \o b.calls, ret |-> b.ret]

Visit(item, cb) == [calls |-> <<[item |-> item.id, r |-> cb[item.id]]>>,
                    ret |-> cb[item.id]]

\* a reportLeftRange that stops before an interval beginning at the query
\* point itself: a faulty variant, which C1 tells from the code's
reportLeftRange_Strict(arr, hi, cb) ==
    LET loop[i \in 1..(Len(arr) + 1)] ==
            IF i <= Len(arr) /\ arr[i].lo < hi
            THEN LET v == Visit(arr[i], cb)
                 IN  IF Truthy(v.ret) THEN v ELSE Then(v, loop[i + 1])
            ELSE NoCalls
    IN  loop[1]

reportLeftRange(arr, hi, cb) ==
    LET loop[i \in 1..(Len(arr) + 1)] ==
            IF i <= Len(arr) /\ arr[i].lo <= hi
            THEN LET v == Visit(arr[i], cb)
                 IN  IF Truthy(v.ret) THEN v ELSE Then(v, loop[i + 1])
            ELSE NoCalls
    IN  loop[1]

reportRightRange(arr, lo, cb) ==
    LET loop[i \in 0..Len(arr)] ==
            IF i >= 1 /\ arr[i].hi >= lo
            THEN LET v == Visit(arr[i], cb)
                 IN  IF Truthy(v.ret) THEN v ELSE Then(v, loop[i - 1])
            ELSE NoCalls
    IN  loop[Len(arr)]

reportRange(arr, cb) ==
    LET loop[i \in 1..(Len(arr) + 1)] ==
            IF i <= Len(arr)
            THEN LET v == Visit(arr[i], cb)
                 IN  IF Truthy(v.ret) THEN v ELSE Then(v, loop[i + 1])
            ELSE NoCalls
    IN  loop[1]

\* a queryPoint that ignores what the subtree's query returned: a faulty
\* variant, which C2 tells from the code's
ChildReturns_Ignored(r) == FALSE

\* the subtree's answer r, handed on when truthy
ChildReturns(r) == Truthy(r.ret)

RECURSIVE queryPoint(_, _, _)
queryPoint(node, x, cb) ==
    IF x < node.mid
    THEN LET r == IF node.left # Null THEN queryPoint(node.left, x, cb)
                  ELSE NoCalls
         IN  IF ChildReturns(r) THEN r
             ELSE Then(r, reportLeftRange(node.leftPoints, x, cb))
    ELSE IF x > node.mid
    THEN LET r == IF node.right # Null THEN queryPoint(node.right, x, cb)
                  ELSE NoCalls
         IN  IF ChildReturns(r) THEN r
             ELSE Then(r, reportRightRange(node.rightPoints, x, cb))
    ELSE reportRange(node.leftPoints, cb)

compareBegin(a, b) ==
    LET d == a.lo - b.lo IN IF d # 0 THEN d ELSE a.hi - b.hi

compareEnd(a, b) ==
    LET d == a.hi - b.hi IN IF d # 0 THEN d ELSE a.lo - b.lo

\* pts: both endpoints of every interval, in push order
Endpoints(ivs) ==
    [k \in 1..(2 * Len(ivs)) |->
        IF k % 2 = 1 THEN ivs[(k + 1) \div 2].lo ELSE ivs[k \div 2].hi]

\* var mid = pts[pts.length >> 1] after pts.sort()
MidOf(ivs) ==
    LET pts == SortWith(Endpoints(ivs), StrLess)
    IN  pts[(Len(pts) \div 2) + 1]

\* a createIntervalTree that drops the intervals right of mid: a faulty
\* variant, which C25 tells from the code's
RECURSIVE createIntervalTree_DropsRight(_)
createIntervalTree_DropsRight(ivs) ==
    IF Len(ivs) = 0 THEN Null
    ELSE LET mid == MidOf(ivs)
             leftIntervals == SelectSeq(ivs, LAMBDA s : s.hi < mid)
             midIntervals ==
                 SelectSeq(ivs, LAMBDA s : ~(s.hi < mid) /\ ~(mid < s.lo))
             leftPoints ==
                 SortWith(midIntervals, LAMBDA a, b : compareBegin(a, b) < 0)
             rightPoints ==
                 SortWith(midIntervals, LAMBDA a, b : compareEnd(a, b) < 0)
         IN  Node(mid,
                  createIntervalTree_DropsRight(leftIntervals),
                  Null,
                  leftPoints,
                  rightPoints)

RECURSIVE createIntervalTree(_)
createIntervalTree(ivs) ==
    IF Len(ivs) = 0 THEN Null
    ELSE LET mid == MidOf(ivs)
             leftIntervals == SelectSeq(ivs, LAMBDA s : s.hi < mid)
             rightIntervals ==
                 SelectSeq(ivs, LAMBDA s : ~(s.hi < mid) /\ mid < s.lo)
             midIntervals ==
                 SelectSeq(ivs, LAMBDA s : ~(s.hi < mid) /\ ~(mid < s.lo))
             leftPoints ==
                 SortWith(midIntervals, LAMBDA a, b : compareBegin(a, b) < 0)
             rightPoints ==
                 SortWith(midIntervals, LAMBDA a, b : compareEnd(a, b) < 0)
         IN  Node(mid,
                  createIntervalTree(leftIntervals),
                  createIntervalTree(rightIntervals),
                  leftPoints,
                  rightPoints)

-----------------------------------------------------------------------------
(* src/trix.js: enums, Segment, Vertex *)

OUTGOING == 0
INCOMING == 1

POSITIVE == 0
NEGATIVE == 1

HORIZONTAL == 0
VERTICAL == 1

\* a field never assigned (undefined)
Undefined == -1

\* p[0] and p[1] of a point or vertex
Coord(p, d) == IF d = 0 THEN p.x ELSE p.y

Min(a, b) == IF a < b THEN a ELSE b
Max(a, b) == IF a < b THEN b ELSE a

\* a raw [x, y] array as the scanners hand to new Segment
RawPoint(x, y) ==
    [x |-> x, y |-> y, ctor |-> "Array", segment |-> 0,
     orientation |-> Undefined, direction |-> Undefined, concave |-> "null"]

\* new Segment(start, end) fails: "Not an axis-parallel segment."
NotAxisParallel(s, e) == s.y # e.y /\ s.x # e.x

\* new Segment(start, end), start and end being ids in the arena P
Segment(start, end, P) ==
    LET s == P[start]
        e == P[end]
        horizontal == s.y = e.y
    IN  [lo |-> IF horizontal THEN Min(s.x, e.x) ELSE Min(s.y, e.y),
         hi |-> IF horizontal THEN Max(s.x, e.x) ELSE Max(s.y, e.y),
         direction |-> IF horizontal THEN HORIZONTAL ELSE VERTICAL,
         start |-> start,
         end |-> end,
         visited |-> FALSE,
         next |-> 0,
         prev |-> 0]

\* the object new Vertex(segment, position, orientation, direction) creates
Vertex(segment, position, orientation, direction) ==
    [x |-> position.x, y |-> position.y, ctor |-> "Vertex",
     segment |-> segment, orientation |-> orientation,
     direction |-> direction, concave |-> "null"]

\* the Vertex constructor's write to its segment: start or end becomes v
AttachVertex(S, segment, orientation, v) ==
    IF orientation = OUTGOING
    THEN [S EXCEPT ![segment].start = v]
    ELSE [S EXCEPT ![segment].end = v]

-----------------------------------------------------------------------------
(* src/trix.js: walk *)

\* a walk that collects each segment's end instead of its start: a faulty
\* variant, which C7 tells from the code's
walk_CollectsEnds(segment, S, P) ==
    LET loop[k \in 0..Len(S)] ==
            IF k = 0
            THEN [at |-> segment, result |-> <<>>, segs |-> S, err |-> "",
                  done |-> FALSE]
            ELSE LET w == loop[k - 1]
                 IN  IF w.done \/ w.segs[w.at].visited
                     THEN [w EXCEPT !.done = TRUE]
                     ELSE IF P[w.segs[w.at].start].ctor # "Vertex"
                     THEN [w EXCEPT !.done = TRUE, !.err = "Not a vertex.",
                                    !.segs[w.at].visited = TRUE]
                     ELSE IF w.segs[w.at].next = 0
                     THEN [w EXCEPT !.done = TRUE, !.err = "Not a loop.",
                                    !.segs[w.at].visited = TRUE,
                                    !.result = Append(@, w.segs[w.at].end)]
                     ELSE [w EXCEPT !.segs[w.at].visited = TRUE,
                                    !.result = Append(@, w.segs[w.at].end),
                                    !.at = w.segs[w.at].next]
    IN  loop[Len(S)]

\* walk(segment): [result, segs, err]
walk(segment, S, P) ==
    LET loop[k \in 0..Len(S)] ==
            \* the state after k iterations
            IF k = 0
            THEN [at |-> segment, result |-> <<>>, segs |-> S, err |-> "",
                  done |-> FALSE]
            ELSE LET w == loop[k - 1]
                 IN  IF w.done \/ w.segs[w.at].visited
                     THEN [w EXCEPT !.done = TRUE]
                     ELSE IF P[w.segs[w.at].start].ctor # "Vertex"
                     THEN [w EXCEPT !.done = TRUE, !.err = "Not a vertex.",
                                    !.segs[w.at].visited = TRUE]
                     ELSE IF w.segs[w.at].next = 0
                     THEN [w EXCEPT !.done = TRUE, !.err = "Not a loop.",
                                    !.segs[w.at].visited = TRUE,
                                    !.result = Append(@, w.segs[w.at].start)]
                     ELSE [w EXCEPT !.segs[w.at].visited = TRUE,
                                    !.result = Append(@, w.segs[w.at].start),
                                    !.at = w.segs[w.at].next]
    IN  loop[Len(S)]

-----------------------------------------------------------------------------
(* src/trix.js: the vertex comparators and getVertices *)

\* a compareHVertices that breaks ties by direction the other way round: a
\* faulty variant, which C18 tells from the code's
compareHVertices_TiesReversed(a, b) ==
    IF a.x - b.x # 0 THEN a.x - b.x
    ELSE IF a.y - b.y # 0 THEN a.y - b.y
    ELSE b.direction - a.direction

compareHVertices(a, b) ==
    IF a.x - b.x # 0 THEN a.x - b.x
    ELSE IF a.y - b.y # 0 THEN a.y - b.y
    ELSE a.direction - b.direction

\* assert(false, "Two vertices should never compare equal")
HCompareThrows(a, b) == compareHVertices(a, b) = 0

\* a compareVVertices that tests for INCOMING where the code tests for
\* OUTGOING: a faulty variant, which C17 tells from the code's
compareVVertices_Incoming(a, b) ==
    IF a.x - b.x # 0 THEN a.x - b.x
    ELSE IF a.y - b.y # 0 THEN a.y - b.y
    ELSE IF a.orientation = INCOMING THEN a.direction - b.direction
    ELSE b.direction - a.direction

\* a compareVVertices that orders by row before column: a faulty variant,
\* which C9 tells from the code's
compareVVertices_RowMajor(a, b) ==
    IF a.y - b.y # 0 THEN a.y - b.y
    ELSE IF a.x - b.x # 0 THEN a.x - b.x
    ELSE IF a.orientation = OUTGOING THEN a.direction - b.direction
    ELSE b.direction - a.direction

compareVVertices(a, b) ==
    IF a.x - b.x # 0 THEN a.x - b.x
    ELSE IF a.y - b.y # 0 THEN a.y - b.y
    ELSE IF a.orientation = OUTGOING THEN a.direction - b.direction
    ELSE b.direction - a.direction

\* assert(a.orientation === b.orientation), or the final assert(false, ...)
VCompareThrows(a, b) ==
    /\ a.x = b.x /\ a.y = b.y
    /\ \/ a.orientation # b.orientation
       \/ compareVVertices(a, b) = 0

\* getVertices(segments): [vertices, segs, points]
getVertices(segments, S, P) ==
    LET loop[i \in 0..Len(segments)] ==
            IF i = 0 THEN [vertices |-> <<>>, segs |-> S, points |-> P]
            ELSE LET g == loop[i - 1]
                     id == segments[i]
                     s == g.segs[id]
                     sp == g.points[s.start]
                     ep == g.points[s.end]
                     direction == IF sp.x < ep.x \/ sp.y < ep.y
                                  THEN POSITIVE ELSE NEGATIVE
                     vo == Len(g.points) + 1
                     vi == Len(g.points) + 2
                 IN  [vertices |-> g.vertices \o <<vo, vi>>,
                      segs |-> AttachVertex(
                                   AttachVertex(g.segs, id, OUTGOING, vo),
                                   id, INCOMING, vi),
                      points |-> g.points \o
                                  <<Vertex(id, sp, OUTGOING, direction),
                                    Vertex(id, ep, INCOMING, direction)>>]
    IN  loop[Len(segments)]

-----------------------------------------------------------------------------
(* src/trix.js: the scanners *)

\* array.get(row, col)
get(a, row, col) == a.data[row + 1][col + 1]

\* the arguments of one new Segment([sx, sy], [ex, ey])
Ends(sx, sy, ex, ey) == [sx |-> sx, sy |-> sy, ex |-> ex, ey |-> ey]

\* the scanners' locals at function entry
ScanStart ==
    [segments |-> <<>>, last_upper |-> 0, last_lower |-> 0,
     segment_start |-> Undefined]

Push(st, e) == [st EXCEPT !.segments = Append(@, e)]

\* scanForVSegments, "top row": the wall x = 0
VTopRow(a, st) ==
    LET n == a.shape[1]
        loop[j \in 0..n] ==
            IF j = 0 THEN st
            ELSE LET s == loop[j - 1]
                     row == j - 1
                     lower == get(a, row, 0)
                 IN  IF s.last_lower = lower THEN s
                     ELSE IF lower # 0
                     THEN [s EXCEPT !.segment_start = row,
                                    !.last_lower = lower]
                     ELSE [Push(s, Ends(0, row, 0, s.segment_start))
                               EXCEPT !.last_lower = lower]
        end == loop[n]
    IN  IF end.last_lower # 0
        THEN Push(end, Ends(0, n, 0, end.segment_start))
        ELSE end

\* a pattern test that looks at the lower pixel only: a faulty variant,
\* which C5 tells from the code's
PatternChanged_LowerOnly(s, lower, upper) == ~(s.last_lower = lower)

\* the (upper, lower) pair differs from the one of the previous step
PatternChanged(s, lower, upper) ==
    ~(s.last_lower = lower /\ s.last_upper = upper)

\* a CloseVRun with the two senses exchanged: a faulty variant, which C4
\* tells from the code's
CloseVRun_Flipped(s, i, row) ==
    IF s.last_lower # 0
    THEN Push(s, Ends(i, s.segment_start, i, row))
    ELSE Push(s, Ends(i, row, i, s.segment_start))

\* scanForVSegments closes the run that ends at row: the segment is pushed
\* with the filled side on its right
CloseVRun(s, i, row) ==
    IF s.last_lower # 0
    THEN Push(s, Ends(i, row, i, s.segment_start))
    ELSE Push(s, Ends(i, s.segment_start, i, row))

\* scanForVSegments, "center": the wall x = i between columns i-1 and i
VCenterWall(a, st, i) ==
    LET n == a.shape[1]
        loop[j \in 0..n] ==
            IF j = 0 THEN [st EXCEPT !.last_lower = 0, !.last_upper = 0]
            ELSE LET s == loop[j - 1]
                     row == j - 1
                     lower == get(a, row, i)
                     upper == get(a, row, i - 1)
                     closed ==
                         IF s.last_lower # s.last_upper
                         THEN CloseVRun(s, i, row)
                         ELSE s
                 IN  IF ~PatternChanged(s, lower, upper) THEN s
                     ELSE [closed EXCEPT
                             !.segment_start =
                                 IF lower # upper THEN row ELSE @,
                             !.last_lower = lower,
                             !.last_upper = upper]
        end == loop[n]
    IN  IF end.last_lower # end.last_upper
        THEN CloseVRun(end, i, n)
        ELSE end

\* scanForVSegments, "bottom row": the wall x = m
VBottomRow(a, st) ==
    LET n == a.shape[1]
        m == a.shape[2]
        loop[j \in 0..n] ==
            IF j = 0 THEN [st EXCEPT !.last_upper = 0]
            ELSE LET s == loop[j - 1]
                     row == j - 1
                     upper == get(a, row, m - 1)
                 IN  IF s.last_upper = upper THEN s
                     ELSE IF upper # 0
                     THEN [s EXCEPT !.segment_start = row,
                                    !.last_upper = upper]
                     ELSE [Push(s, Ends(m, s.segment_start, m, row))
                               EXCEPT !.last_upper = upper]
        end == loop[n]
    IN  IF end.last_upper # 0
        THEN Push(end, Ends(m, end.segment_start, m, n))
        ELSE end

\* scanForVSegments(array): the new Segment(...) calls it makes, in order
scanForVSegments(a) ==
    LET m == a.shape[2]
        \* the walls are scanned in order: what the walls before i pushed
        \* is settled before wall i is entered
        center[i \in 0..(m - 1)] ==
            IF i = 0 THEN VTopRow(a, ScanStart)
            ELSE LET before == center[i - 1]
                 IN  IF Len(before.segments) >= 0
                     THEN VCenterWall(a, before, i)
                     ELSE before
        walls == center[m - 1]
    IN  IF Len(walls.segments) >= 0
        THEN VBottomRow(a, walls).segments
        ELSE walls.segments

\* scanForHSegments, "top row": the wall y = 0
HTopRow(a, st) ==
    LET m == a.shape[2]
        loop[j \in 0..m] ==
            IF j = 0 THEN st
            ELSE LET s == loop[j - 1]
                     col == j - 1
                     lower == get(a, 0, col)
                 IN  IF s.last_lower = lower THEN s
                     ELSE IF lower # 0
                     THEN [s EXCEPT !.segment_start = col,
                                    !.last_lower = lower]
                     ELSE [Push(s, Ends(s.segment_start, 0, col, 0))
                               EXCEPT !.last_lower = lower]
        end == loop[m]
    IN  IF end.last_lower # 0
        THEN Push(end, Ends(end.segment_start, 0, m, 0))
        ELSE end

\* a CloseHRun that emits nothing for a run filled on its upper side: a
\* faulty variant, which C10 tells from the code's
CloseHRun_LowerOnly(s, i, col) ==
    IF s.last_lower # 0
    THEN Push(s, Ends(s.segment_start, i, col, i))
    ELSE s

\* scanForHSegments closes the run that ends at col: the segment is pushed
\* with the filled side on its right
CloseHRun(s, i, col) ==
    IF s.last_lower # 0
    THEN Push(s, Ends(s.segment_start, i, col, i))
    ELSE Push(s, Ends(col, i, s.segment_start, i))

\* scanForHSegments, "center": the wall y = i between rows i-1 and i
HCenterWall(a, st, i) ==
    LET m == a.shape[2]
        loop[j \in 0..m] ==
            IF j = 0 THEN [st EXCEPT !.last_lower = 0, !.last_upper = 0]
            ELSE LET s == loop[j - 1]
                     col == j - 1
                     lower == get(a, i, col)
                     upper == get(a, i - 1, col)
                     closed ==
                         IF s.last_lower # s.last_upper
                         THEN CloseHRun(s, i, col)
                         ELSE s
                 IN  IF ~PatternChanged(s, lower, upper) THEN s
                     ELSE [closed EXCEPT
                             !.segment_start =
                                 IF lower # upper THEN col ELSE @,
                             !.last_lower = lower,
                             !.last_upper = upper]
        end == loop[m]
    IN  IF end.last_lower # end.last_upper
        THEN CloseHRun(end, i, m)
        ELSE end

\* scanForHSegments, "bottom row": the wall y = n
HBottomRow(a, st) ==
    LET n == a.shape[1]
        m == a.shape[2]
        loop[j \in 0..m] ==
            IF j = 0 THEN [st EXCEPT !.last_upper = 0]
            ELSE LET s == loop[j - 1]
                     col == j - 1
                     upper == get(a, n - 1, col)
                 IN  IF s.last_upper = upper THEN s
                     ELSE IF upper # 0
                     THEN [s EXCEPT !.segment_start = col,
                                    !.last_upper = upper]
                     ELSE [Push(s, Ends(col, n, s.segment_start, n))
                               EXCEPT !.last_upper = upper]
        end == loop[m]
    IN  IF end.last_upper # 0
        THEN Push(end, Ends(m, n, end.segment_start, n))
        ELSE end

\* scanForHSegments(array): the new Segment(...) calls it makes, in order
scanForHSegments(a) ==
    LET n == a.shape[1]
        \* the walls are scanned in order: what the walls before i pushed
        \* is settled before wall i is entered
        center[i \in 0..(n - 1)] ==
            IF i = 0 THEN HTopRow(a, ScanStart)
            ELSE LET before == center[i - 1]
                 IN  IF Len(before.segments) >= 0
                     THEN HCenterWall(a, before, i)
                     ELSE before
        walls == center[n - 1]
    IN  IF Len(walls.segments) >= 0
        THEN HBottomRow(a, walls).segments
        ELSE walls.segments

\* the Segment objects and raw endpoint arrays a scan allocates for the
\* constructor calls es: [ids, segs, points]
AllocSegments(es, S, P) ==
    LET P2 == P \o [k \in 1..(2 * Len(es)) |->
                      IF k % 2 = 1
                      THEN RawPoint(es[(k + 1) \div 2].sx,
                                    es[(k + 1) \div 2].sy)
                      ELSE RawPoint(es[k \div 2].ex, es[k \div 2].ey)]
    IN  [ids |-> [k \in 1..Len(es) |-> Len(S) + k],
         segs |-> S \o [k \in 1..Len(es) |->
                          Segment(Len(P) + 2 * k - 1, Len(P) + 2 * k, P2)],
         points |-> P2]

-----------------------------------------------------------------------------
(* src/trix.js: preprocess *)

JsBool(b) == IF b THEN "true" ELSE "false"

\* hvertices.sort(compareHVertices) throws when the comparator throws on
\* some pair of the list: that pair shares its position, so no sort can
\* order the list without comparing two such vertices
HSortThrows(ids, P) ==
    \E i, j \in 1..Len(ids) : i < j /\ HCompareThrows(P[ids[i]], P[ids[j]])

\* vvertices.sort(compareVVertices) throws, likewise
VSortThrows(ids, P) ==
    \E i, j \in 1..Len(ids) : i < j /\ VCompareThrows(P[ids[i]], P[ids[j]])

\* hvertices.sort(compareHVertices)
SortHVertices(ids, P) ==
    SortWith(ids, LAMBDA a, b : compareHVertices(P[a], P[b]) < 0)

\* vvertices.sort(compareVVertices)
SortVVertices(ids, P) ==
    SortWith(ids, LAMBDA a, b : compareVVertices(P[a], P[b]) < 0)

\* the concave mark of a pair whose horizontal vertex is OUTGOING
ConcaveAtOutgoing(hvertex, vvertex) == hvertex.direction = vvertex.direction

\* the OUTGOING rule used for an INCOMING horizontal vertex too: a faulty
\* variant, which C8 tells from the code's
ConcaveAtIncoming_AsOutgoing(hvertex, vvertex) ==
    hvertex.direction = vvertex.direction

\* the concave mark of a pair whose horizontal vertex is INCOMING
ConcaveAtIncoming(hvertex, vvertex) == hvertex.direction # vvertex.direction

\* one iteration of the gluing loop of preprocess, for the pair (h, v) of
\* vertex ids, on g = [segs, points, concaves, err]
GluePair(g, h, v) ==
    LET hvertex == g.points[h]
        vvertex == g.points[v]
        coincide == vvertex.x = hvertex.x /\ hvertex.y = vvertex.y
    IN  IF hvertex.orientation = OUTGOING
        THEN IF ~ /\ g.segs[hvertex.segment].start = h
                  /\ g.segs[vvertex.segment].end = v
                  /\ coincide
             THEN [g EXCEPT !.err = "Assertion failed"]
             ELSE LET concave == ConcaveAtOutgoing(hvertex, vvertex)
                  IN  [g EXCEPT
                         !.segs[hvertex.segment].prev = vvertex.segment,
                         !.segs[vvertex.segment].next = hvertex.segment,
                         !.points[v].concave = JsBool(concave),
                         !.points[h].concave = JsBool(concave),
                         !.concaves = IF concave THEN Append(@, h) ELSE @]
        ELSE IF ~ /\ g.segs[vvertex.segment].start = v
                  /\ g.segs[hvertex.segment].end = h
                  /\ coincide
             THEN [g EXCEPT !.err = "Assertion failed"]
             ELSE IF vvertex.orientation # OUTGOING
             THEN [g EXCEPT !.err =
                      "Vertex at start of vertical segment expected."]
             ELSE LET concave == ConcaveAtIncoming(hvertex, vvertex)
                  IN  [g EXCEPT
                         !.segs[hvertex.segment].next = vvertex.segment,
                         !.segs[vvertex.segment].prev = hvertex.segment,
                         !.points[v].concave = JsBool(concave),
                         !.points[h].concave = JsBool(concave),
                         !.concaves = IF concave THEN Append(@, v) ELSE @]

\* the gluing loop of preprocess, halted by the first failed assertion
Glue(HV, VV, S, P) ==
    LET loop[i \in 0..Len(HV)] ==
            IF i = 0
            THEN [segs |-> S, points |-> P, concaves |-> <<>>, err |-> ""]
            ELSE LET g == loop[i - 1]
                 IN  IF g.err # "" THEN g ELSE GluePair(g, HV[i], VV[i])
    IN  loop[Len(HV)]

-----------------------------------------------------------------------------
(* src/trix.js: getDiagonals, findCrossings, selectDiagonals *)

\* the list handed to createIntervalTree: each Segment is its own interval
\* [s[0], s[1]]
SegItems(ids, S) ==
    [k \in 1..Len(ids) |->
        [lo |-> S[ids[k]].lo, hi |-> S[ids[k]].hi, id |-> ids[k]]]

\* the items of the tree t
RECURSIVE TreeIds(_)
TreeIds(t) ==
    IF t = Null THEN {}
    ELSE {t.leftPoints[k].id : k \in 1..Len(t.leftPoints)}
            \cup TreeIds(t.left) \cup TreeIds(t.right)

\* a findIntersections that never finds a segment in the way: a faulty
\* variant, which C13 tells from the code's
findIntersections_Never(direction, a, b, t, S, P) == FALSE

\* findIntersections(direction, a, b, tree), a and b vertex records
findIntersections(direction, a, b, t, S, P) ==
    LET c == Coord(a, direction)
        d == Coord(b, direction)
        cb == [id \in TreeIds(t) |->
                 LET x == Coord(P[S[id].start], direction)
                 IN  JsBool(c < x /\ x < d)]
    IN  Truthy(queryPoint(t, Coord(a, 1 - direction), cb).ret)

\* the comparator of the sort in getDiagonals
compareConcaves(direction, a, b) ==
    LET d == Coord(a, 1 - direction) - Coord(b, 1 - direction)
    IN  IF d # 0 THEN d ELSE Coord(a, direction) - Coord(b, direction)

\* a test that keeps the pairs a polygon edge already joins: a faulty
\* variant, which C14 tells from the code's
IsDiagonal_KeepsEdges(direction, a, b, t, S, P) ==
    /\ Coord(P[a], 1 - direction) = Coord(P[b], 1 - direction)
    /\ ~findIntersections(direction, P[a], P[b], t, S, P)

\* whether the loop body of getDiagonals makes a chord of the pair (a, b)
\* of vertex ids
IsDiagonal(direction, a, b, t, S, P) ==
    /\ Coord(P[a], 1 - direction) = Coord(P[b], 1 - direction)
    /\ ~ /\ P[S[P[a].segment].end].x = P[b].x
         /\ P[S[P[a].segment].end].y = P[b].y
    /\ S[S[P[a].segment].prev].start # b
    /\ ~findIntersections(direction, P[a], P[b], t, S, P)

\* getDiagonals(direction, concaves, tree):
\* [concaves (sorted in place), diagonals, segs, err]
getDiagonals(direction, cs, t, S, P) ==
    LET sorted == SortWith(cs, LAMBDA a, b :
                               compareConcaves(direction, P[a], P[b]) < 0)
        loop[i \in 1..Max(1, Len(sorted))] ==
            IF i = 1
            THEN [concaves |-> sorted, diagonals |-> <<>>, segs |-> S,
                  err |-> ""]
            ELSE LET g == loop[i - 1]
                     a == sorted[i - 1]
                     b == sorted[i]
                 IN  IF g.err # "" THEN g
                     ELSE IF S[P[a].segment].start # a
                     THEN [g EXCEPT !.err = "Assertion failed"]
                     ELSE IF IsDiagonal(direction, a, b, t, S, P)
                     THEN [g EXCEPT
                             !.segs = Append(@, Segment(a, b, P)),
                             !.diagonals = Append(@, Len(g.segs) + 1)]
                     ELSE g
    IN  loop[Max(1, Len(sorted))]

\* the visitor of findCrossings: whether the pair is pushed
Crosses(h, v, S, P) ==
    /\ P[S[h].start].y < S[v].hi
    /\ S[v].lo < P[S[h].start].y

\* findCrossings(horizontalDiagonals, verticalDiagonals): the pairs
\* [horizontal, vertical] pushed, in order
findCrossings(hd, vd, S, P) ==
    IF Len(hd) = 0 THEN <<>>
    ELSE LET ht == createIntervalTree(SegItems(hd, S))
             never == [id \in TreeIds(ht) |-> "undefined"]
             of[i \in 0..Len(vd)] ==
                 IF i = 0 THEN <<>>
                 ELSE LET v == vd[i]
                          seen == queryPoint(ht, P[S[v].start].x,
                                             never).calls
                          hit == SelectSeq(seen, LAMBDA c :
                                     Crosses(c.item, v, S, P))
                      IN  of[i - 1] \o
                          [k \in 1..Len(hit) |->
                              [horizontal |-> hit[k].item, vertical |-> v]]
         IN  of[Len(vd)]

\* assert(verticalDiagonal.start[0] === verticalDiagonal.end[0])
CrossingsThrow(hd, vd, S, P) ==
    /\ Len(hd) # 0
    /\ \E i \in 1..Len(vd) : P[S[vd[i]].start].x # P[S[vd[i]].end].x

\* a result built from every chord of the list, chosen or not: a faulty
\* variant, which C11 tells from the code's
Chosen_All(l, c) == l

\* the positions in the list l of the chords of the set c, ascending
Chosen(l, c) == SelectSeq(l, LAMBDA d : d \in c)

\* bipartiteIndependentSet(n, m, crossingIds): the package answers with a
\* largest set of chords no two of which are joined by a crossing; which
\* one is the package's choice, so every largest set is a possible answer
IndependentSets(hd, vd, cs) ==
    LET all == {hd[i] : i \in 1..Len(hd)} \cup {vd[i] : i \in 1..Len(vd)}
        free == {c \in SUBSET all :
                    \A k \in 1..Len(cs) :
                        ~ /\ cs[k].horizontal \in c
                          /\ cs[k].vertical \in c}
    IN  {c \in free : \A o \in free : Cardinality(o) <= Cardinality(c)}

\* selectDiagonals(horizontalDiagonals, verticalDiagonals): its possible
\* results, the chosen horizontal chords before the chosen vertical ones
selectDiagonals(hd, vd, S, P) ==
    {Chosen(hd, c) \o Chosen(vd, c) :
        c \in IndependentSets(hd, vd, findCrossings(hd, vd, S, P))}

-----------------------------------------------------------------------------
(* src/trix.js: splitSegment and findIntersectingSegment *)

getVertexDirection(s, P) ==
    IF Coord(P[s.end], s.direction) - Coord(P[s.start], s.direction) > 0
    THEN POSITIVE ELSE NEGATIVE

\* a Rewire that leaves the predecessors' next links as they were: a faulty
\* variant, which C24 tells from the code's
Rewire_KeepsPredecessors(S, spa, sab, sb, spb, sba, sa) ==
    [S EXCEPT ![sab].prev = spa,
              ![sab].next = sb,
              ![sb].prev = sab,
              ![sba].prev = spb,
              ![sba].next = sa,
              ![sa].prev = sba]

\* a Rewire that swaps the successors of the chord and its reverse: a
\* faulty variant, which C19 tells from the code's
Rewire_SwappedSuccessors(S, spa, sab, sb, spb, sba, sa) ==
    [S EXCEPT ![spa].next = sab,
              ![sab].prev = spa,
              ![sab].next = sa,
              ![sb].prev = sab,
              ![spb].next = sba,
              ![sba].prev = spb,
              ![sba].next = sb,
              ![sa].prev = sba]

\* a Rewire that forgets the last prev write: a faulty variant, which C6
\* tells from the code's
Rewire_ForgetsLastPrev(S, spa, sab, sb, spb, sba, sa) ==
    [S EXCEPT ![spa].next = sab,
              ![sab].prev = spa,
              ![sab].next = sb,
              ![sb].prev = sab,
              ![spb].next = sba,
              ![sba].prev = spb,
              ![sba].next = sa]

\* the eight pointer writes of splitSegment, in the order of the source
Rewire(S, spa, sab, sb, spb, sba, sa) ==
    [S EXCEPT ![spa].next = sab,
              ![sab].prev = spa,
              ![sab].next = sb,
              ![sb].prev = sab,
              ![spb].next = sba,
              ![sba].prev = spb,
              ![sba].next = sa,
              ![sa].prev = sba]

\* the vertices whose concave flag splitSegment clears: the two new ones
\* and the chord's two endpoints
ClearConcave(P, vA, vB, va, vb) ==
    [P EXCEPT ![vA].concave = "false",
              ![vB].concave = "false",
              ![va].concave = "false",
              ![vb].concave = "false"]

\* splitSegment(segment, hsegments, vsegments):
\* [segs, points, hsegments, vsegments, err]
splitSegment(segment, S, P, hs, vs) ==
    LET va == S[segment].start
        vb == S[segment].end
        sa == P[va].segment
        sb == P[vb].segment
        spa == S[sa].prev
        spb == S[sb].prev
        sab == segment
        sba == Len(S) + 1
        S1 == Append(S, Segment(vb, va, P))
        S2 == Rewire(S1, spa, sab, sb, spb, sba, sa)
        vertexDirection == getVertexDirection(S2[sab], P)
        vA == Len(P) + 1
        vB == Len(P) + 2
        P1 == P \o <<Vertex(sab, P[va], OUTGOING, vertexDirection),
                     Vertex(sba, P[vb], OUTGOING, 1 - vertexDirection)>>
        S3 == AttachVertex(AttachVertex(S2, sab, OUTGOING, vA),
                           sba, OUTGOING, vB)
        same == [segs |-> S, points |-> P, hsegments |-> hs,
                 vsegments |-> vs, err |-> ""]
    IN  IF sa = segment \/ sb = segment
        THEN [same EXCEPT !.err = "Assertion failed"]
        ELSE IF spa = 0 \/ spb = 0
        THEN [same EXCEPT !.err = "TypeError"]
        ELSE IF Coord(P[vb], S[sab].direction)
                    = Coord(P[va], S[sab].direction)
        THEN [same EXCEPT !.segs = S2, !.err = "Assertion failed"]
        ELSE [segs |-> S3,
              points |-> ClearConcave(P1, vA, vB, va, vb),
              hsegments |-> IF S[sab].direction = HORIZONTAL
                            THEN hs \o <<sab, sba>> ELSE hs,
              vsegments |-> IF S[sab].direction = HORIZONTAL
                            THEN vs ELSE vs \o <<sab, sba>>,
              err |-> ""]

\* a findIntersectingSegment that keeps the farthest segment instead of
\* the nearest: a faulty variant, which C22 tells from the code's
findIntersectingSegment_Farthest(v, ht, vt, S, P) ==
    LET vertex == P[v]
        direction == S[vertex.segment].direction
        t == IF direction = HORIZONTAL THEN vt ELSE ht
        never == [id \in TreeIds(t) |-> "undefined"]
        seen == queryPoint(t, Coord(vertex, 1 - direction), never).calls
        at(id) == Coord(P[S[id].start], direction)
        best[k \in 0..Len(seen)] ==
            IF k = 0 THEN 0
            ELSE LET segment == seen[k].item
                     kept == best[k - 1]
                 IN  IF vertex.direction = POSITIVE
                     THEN IF /\ at(segment) < Coord(vertex, direction)
                             /\ (kept = 0 \/ at(kept) > at(segment))
                          THEN segment ELSE kept
                     ELSE IF /\ at(segment) > Coord(vertex, direction)
                             /\ (kept = 0 \/ at(kept) < at(segment))
                          THEN segment ELSE kept
    IN  best[Len(seen)]

\* findIntersectingSegment(vertex, htree, vtree): the segment kept in
\* intersectingSegment (0 for null), for the vertex id v
findIntersectingSegment(v, ht, vt, S, P) ==
    LET vertex == P[v]
        direction == S[vertex.segment].direction
        t == IF direction = HORIZONTAL THEN vt ELSE ht
        never == [id \in TreeIds(t) |-> "undefined"]
        seen == queryPoint(t, Coord(vertex, 1 - direction), never).calls
        at(id) == Coord(P[S[id].start], direction)
        best[k \in 0..Len(seen)] ==
            IF k = 0 THEN 0
            ELSE LET segment == seen[k].item
                     kept == best[k - 1]
                 IN  IF vertex.direction = POSITIVE
                     THEN IF /\ at(segment) < Coord(vertex, direction)
                             /\ (kept = 0 \/ at(kept) < at(segment))
                          THEN segment ELSE kept
                     ELSE IF /\ at(segment) > Coord(vertex, direction)
                             /\ (kept = 0 \/ at(kept) > at(segment))
                          THEN segment ELSE kept
    IN  best[Len(seen)]

-----------------------------------------------------------------------------
(* The interval tree scenario: build a tree over a list of intervals, then  *)
(* stab it at a point with some visitor.                                    *)

IntervalPairs == {p \in Coords \X Coords : p[1] <= p[2]}

\* the lists of at most MaxIntervals intervals, the i-th carrying identity i
IntervalLists ==
    UNION {[1..n -> IntervalPairs] : n \in 0..MaxIntervals}

Items(l) == [i \in 1..Len(l) |-> [lo |-> l[i][1], hi |-> l[i][2], id |-> i]]

\* a thrown Error: its message and the function that threw it
Thrown(message, by) == [message |-> message, by |-> by]

NoError == Thrown("", "")

Raise(message, by) == IF message = "" THEN NoError ELSE Thrown(message, by)

PipelineIdle ==
    /\ pc = "idle"
    /\ err = NoError
    /\ array = [shape |-> <<0, 0>>, data |-> <<>>]
    /\ segs = <<>>
    /\ points = <<>>
    /\ hsegments = <<>>
    /\ vsegments = <<>>
    /\ hvertices = <<>>
    /\ vvertices = <<>>
    /\ concaves = <<>>
    /\ walked = <<>>
    /\ htree = Null
    /\ vtree = Null
    /\ hdiagonals = <<>>
    /\ vdiagonals = <<>>
    /\ crossings = <<>>
    /\ selected = <<>>
    /\ nsplit = 0
    /\ ci = 0
    /\ found = 0

InitTree ==
    /\ PipelineIdle
    /\ tpc = "new"
    /\ intervals \in {Items(l) : l \in IntervalLists}
    /\ tree = Null
    /\ qx = 0
    /\ calls = <<>>
    /\ result = "undefined"

CreateIntervalTree ==
    /\ tpc = "new"
    /\ tree' = createIntervalTree(intervals)
    /\ tpc' = "built"
    /\ UNCHANGED <<intervals, qx, calls, result>>
    /\ UNCHANGED pipeVars

\* tree.queryPoint(x, cb), every caller holding a non-null tree
QueryPoint ==
    /\ tpc = "built"
    /\ tree # Null
    /\ \E x \in QueryPoints, cb \in [1..Len(intervals) -> RetVals] :
         LET q == queryPoint(tree, x, cb)
         IN  /\ qx' = x
             /\ calls' = q.calls
             /\ result' = q.ret
    /\ tpc' = "queried"
    /\ UNCHANGED <<intervals, tree>>
    /\ UNCHANGED pipeVars

NextTree == CreateIntervalTree \/ QueryPoint

SpecTree == InitTree /\ [][NextTree]_vars

-----------------------------------------------------------------------------
(* The raster scenario: preprocess(array) step by step, then either walks   *)
(* over the stitched loops or the rest of getContours.                      *)

\* the largest number of pixels of a raster
MaxCells == 9

\* the shapes [rows, cols] of at most k pixels
Shapes(k) == {sh \in (1..k) \X (1..k) : sh[1] * sh[2] <= k}

\* the rasters of at most k pixels with values in vals
RastersOver(vals, k) ==
    UNION {{[shape |-> sh, data |-> d] :
               d \in [1..sh[1] -> [1..sh[2] -> vals]]} : sh \in Shapes(k)}

Raster(rows) == [shape |-> <<Len(rows), Len(rows[1])>>, data |-> rows]

\* the rasters of the repository's tests
TestRasters ==
    { Raster(<< <<1, 0, 1, 0>>, <<1, 1, 1, 1>>, <<1, 1, 1, 0>> >>),
      Raster(<< <<1, 1>>, <<1, 0>>, <<1, 1>>, <<1, 0>>, <<1, 1>> >>),
      Raster(<< <<1, 0>>, <<0, 1>> >>),
      Raster(<< <<0, 1>>, <<1, 0>> >>),
      Raster(<< <<1, 1, 1>>, <<1, 0, 1>>, <<1, 1, 1>> >>),
      Raster(<< <<1, 1, 1, 1>>, <<1, 1, 0, 1>>,
                <<1, 0, 1, 1>>, <<1, 1, 1, 1>> >>),
      Raster(<< <<1, 1, 1, 1>>, <<1, 0, 1, 1>>,
                <<1, 1, 0, 1>>, <<1, 1, 1, 1>> >>),
      Raster(<< <<1, 1, 1, 1, 1>>, <<1, 0, 1, 1, 1>>, <<1, 0, 0, 0, 1>>,
                <<1, 1, 0, 1, 1>>, <<1, 1, 1, 1, 1>> >>),
      Raster(<< <<1, 1, 1, 1, 0>>, <<1, 1, 1, 1, 1>>, <<1, 1, 1, 1, 1>>,
                <<1, 1, 1, 1, 1>>, <<1, 1, 1, 1, 1>> >>) }

TreeIdle ==
    /\ tpc = "idle"
    /\ intervals = <<>>
    /\ tree = Null
    /\ qx = 0
    /\ calls = <<>>
    /\ result = "undefined"

PipelineStart ==
    /\ pc = "start"
    /\ err = NoError
    /\ segs = <<>>
    /\ points = <<>>
    /\ hsegments = <<>>
    /\ vsegments = <<>>
    /\ hvertices = <<>>
    /\ vvertices = <<>>
    /\ concaves = <<>>
    /\ walked = <<>>
    /\ htree = Null
    /\ vtree = Null
    /\ hdiagonals = <<>>
    /\ vdiagonals = <<>>
    /\ crossings = <<>>
    /\ selected = <<>>
    /\ nsplit = 0
    /\ ci = 0
    /\ found = 0

\* a raster whose hole has a corner in line with a notch of the outer
\* boundary, so that a chord joins the hole's loop to the outer one
NotchedDonut ==
    Raster(<< <<1, 1, 1, 0>>, <<1, 0, 1, 1>>, <<1, 1, 1, 1>> >>)

Init ==
    /\ TreeIdle
    /\ PipelineStart
    /\ array \in RastersOver({0, 1}, MaxCells) \cup TestRasters
                    \cup {NotchedDonut}

\* the scanners alone, on rasters whose foreground pixels carry any of the
\* values 1..MaxPixel
MaxPixel == 2

\* the largest number of pixels of those rasters
MaxScanCells == 4

InitScan ==
    /\ TreeIdle
    /\ PipelineStart
    /\ array \in RastersOver(0..MaxPixel, MaxScanCells)

\* var hsegments = scanForHSegments(array)
ScanForHSegments ==
    /\ pc = "start"
    /\ LET a == AllocSegments(scanForHSegments(array), segs, points)
       IN  /\ segs' = a.segs
           /\ points' = a.points
           /\ hsegments' = a.ids
    /\ pc' = "hscanned"
    /\ UNCHANGED <<err, array, vsegments, hvertices, vvertices, concaves,
                   walked>>
    /\ UNCHANGED contourVars
    /\ UNCHANGED treeVars

\* var hvertices = getVertices(hsegments)
GetHVertices ==
    /\ pc = "hscanned"
    /\ LET g == getVertices(hsegments, segs, points)
       IN  /\ segs' = g.segs
           /\ points' = g.points
           /\ hvertices' = g.vertices
    /\ pc' = "hvertices"
    /\ UNCHANGED <<err, array, hsegments, vsegments, vvertices, concaves,
                   walked>>
    /\ UNCHANGED contourVars
    /\ UNCHANGED treeVars

\* var vsegments = scanForVSegments(array)
ScanForVSegments ==
    /\ pc = "hvertices"
    /\ LET a == AllocSegments(scanForVSegments(array), segs, points)
       IN  /\ segs' = a.segs
           /\ points' = a.points
           /\ vsegments' = a.ids
    /\ pc' = "vscanned"
    /\ UNCHANGED <<err, array, hsegments, hvertices, vvertices, concaves,
                   walked>>
    /\ UNCHANGED contourVars
    /\ UNCHANGED treeVars

\* var vvertices = getVertices(vsegments)
GetVVertices ==
    /\ pc = "vscanned"
    /\ LET g == getVertices(vsegments, segs, points)
       IN  /\ segs' = g.segs
           /\ points' = g.points
           /\ vvertices' = g.vertices
    /\ pc' = "vvertices"
    /\ UNCHANGED <<err, array, hsegments, vsegments, hvertices, concaves,
                   walked>>
    /\ UNCHANGED contourVars
    /\ UNCHANGED treeVars

\* the two length assertions of preprocess, then the two sorts
SortVertices ==
    /\ pc = "vvertices"
    /\ IF \/ Len(hvertices) # Len(vvertices)
          \/ 2 * Len(hsegments) # Len(hvertices)
       THEN /\ err' = Thrown("Assertion failed", "preprocess")
            /\ pc' = "failed"
            /\ UNCHANGED <<hvertices, vvertices>>
       ELSE IF HSortThrows(hvertices, points)
       THEN /\ err' = Thrown("Two vertices should never compare equal",
                             "compareHVertices")
            /\ pc' = "failed"
            /\ UNCHANGED <<hvertices, vvertices>>
       ELSE IF VSortThrows(vvertices, points)
       THEN /\ err' = Thrown("Assertion failed", "compareVVertices")
            /\ pc' = "failed"
            /\ hvertices' = SortHVertices(hvertices, points)
            /\ UNCHANGED vvertices
       ELSE /\ hvertices' = SortHVertices(hvertices, points)
            /\ vvertices' = SortVVertices(vvertices, points)
            /\ pc' = "sorted"
            /\ UNCHANGED err
    /\ UNCHANGED <<array, segs, points, hsegments, vsegments, concaves, walked>>
    /\ UNCHANGED contourVars
    /\ UNCHANGED treeVars

\* the gluing loop of preprocess and its return
GlueVertices ==
    /\ pc = "sorted"
    /\ LET g == Glue(hvertices, vvertices, segs, points)
       IN  /\ segs' = g.segs
           /\ points' = g.points
           /\ err' = Raise(g.err, "preprocess")
           /\ concaves' = IF g.err = "" THEN g.concaves ELSE concaves
           /\ pc' = IF g.err = "" THEN "preprocessed" ELSE "failed"
    /\ UNCHANGED <<array, hsegments, vsegments, hvertices, vvertices, walked>>
    /\ UNCHANGED contourVars
    /\ UNCHANGED treeVars

\* walk(s) for any segment s of the stitched lists, as the tests do to
\* unwrap a loop
Walk ==
    /\ pc = "preprocessed"
    /\ \E s \in 1..Len(segs) :
         LET w == walk(s, segs, points)
         IN  /\ segs' = w.segs
             /\ walked' = w.result
             /\ err' = Raise(w.err, "walk")
             /\ pc' = IF w.err = "" THEN "walked" ELSE "failed"
    /\ UNCHANGED <<array, points, hsegments, vsegments, hvertices, vvertices,
                   concaves>>
    /\ UNCHANGED contourVars
    /\ UNCHANGED treeVars

\* htree = createIntervalTree(hsegments); vtree = createIntervalTree(vsegments)
BuildTrees ==
    /\ pc = "preprocessed"
    /\ htree' = createIntervalTree(SegItems(hsegments, segs))
    /\ vtree' = createIntervalTree(SegItems(vsegments, segs))
    /\ pc' = "trees"
    /\ UNCHANGED <<err, array, segs, points, hsegments, vsegments, hvertices,
                   vvertices, concaves, walked>>
    /\ UNCHANGED <<hdiagonals, vdiagonals, crossings, selected, nsplit, ci,
                   found>>
    /\ UNCHANGED treeVars

\* hdiagonals = getDiagonals(SegmentDirection.HORIZONTAL, concaves, vtree)
GetHDiagonals ==
    /\ pc = "trees"
    /\ LET g == getDiagonals(HORIZONTAL, concaves, vtree, segs, points)
       IN  /\ concaves' = g.concaves
           /\ segs' = g.segs
           /\ hdiagonals' = g.diagonals
           /\ err' = Raise(g.err, "getDiagonals")
           /\ pc' = IF g.err = "" THEN "hdiagonals" ELSE "failed"
    /\ UNCHANGED <<array, points, hsegments, vsegments, hvertices, vvertices,
                   walked>>
    /\ UNCHANGED <<htree, vtree, vdiagonals, crossings, selected, nsplit, ci,
                   found>>
    /\ UNCHANGED treeVars

\* vdiagonals = getDiagonals(SegmentDirection.VERTICAL, concaves, htree)
GetVDiagonals ==
    /\ pc = "hdiagonals"
    /\ LET g == getDiagonals(VERTICAL, concaves, htree, segs, points)
       IN  /\ concaves' = g.concaves
           /\ segs' = g.segs
           /\ vdiagonals' = g.diagonals
           /\ err' = Raise(g.err, "getDiagonals")
           /\ pc' = IF g.err = "" THEN "vdiagonals" ELSE "failed"
    /\ UNCHANGED <<array, points, hsegments, vsegments, hvertices, vvertices,
                   walked>>
    /\ UNCHANGED <<htree, vtree, hdiagonals, crossings, selected, nsplit, ci,
                   found>>
    /\ UNCHANGED treeVars

\* selectedDiagonals = selectDiagonals(hdiagonals, vdiagonals)
SelectDiagonals ==
    /\ pc = "vdiagonals"
    /\ IF CrossingsThrow(hdiagonals, vdiagonals, segs, points)
       THEN /\ err' = Thrown("Assertion failed", "findCrossings")
            /\ pc' = "failed"
            /\ UNCHANGED <<crossings, selected>>
       ELSE /\ crossings' = findCrossings(hdiagonals, vdiagonals, segs, points)
            /\ selected' \in selectDiagonals(hdiagonals, vdiagonals,
                                             segs, points)
            /\ pc' = "selected"
            /\ UNCHANGED err
    /\ UNCHANGED <<array, segs, points, hsegments, vsegments, hvertices,
                   vvertices, concaves, walked>>
    /\ UNCHANGED <<htree, vtree, hdiagonals, vdiagonals, nsplit, ci, found>>
    /\ UNCHANGED treeVars

\* one call of the forEach over selectedDiagonals:
\* splitSegment(segment, hsegments, vsegments)
SplitSegment ==
    /\ pc = "selected"
    /\ nsplit < Len(selected)
    /\ LET r == splitSegment(selected[nsplit + 1], segs, points,
                             hsegments, vsegments)
       IN  /\ segs' = r.segs
           /\ points' = r.points
           /\ hsegments' = r.hsegments
           /\ vsegments' = r.vsegments
           /\ err' = Raise(r.err, "splitSegment")
           /\ pc' = IF r.err = "" THEN "selected" ELSE "failed"
    /\ nsplit' = nsplit + 1
    /\ UNCHANGED <<array, hvertices, vvertices, concaves, walked>>
    /\ UNCHANGED <<htree, vtree, hdiagonals, vdiagonals, crossings, selected,
                   ci, found>>
    /\ UNCHANGED treeVars

\* the trees are rebuilt once every selected chord is split
RefreshTrees ==
    /\ pc = "selected"
    /\ nsplit = Len(selected)
    /\ htree' = createIntervalTree(SegItems(hsegments, segs))
    /\ vtree' = createIntervalTree(SegItems(vsegments, segs))
    /\ pc' = "refreshed"
    /\ UNCHANGED <<err, array, segs, points, hsegments, vsegments, hvertices,
                   vvertices, concaves, walked>>
    /\ UNCHANGED <<hdiagonals, vdiagonals, crossings, selected, nsplit, ci,
                   found>>
    /\ UNCHANGED treeVars

\* one call of the forEach over concaves: splitConcave(vertex, htree, vtree)
\* for a vertex still concave, nothing for the others
SplitConcave ==
    /\ pc = "refreshed"
    /\ ci < Len(concaves)
    /\ LET v == concaves[ci + 1]
           s == findIntersectingSegment(v, htree, vtree, segs, points)
       IN  IF points[v].concave # "true"
           THEN UNCHANGED <<found, err, pc>>
           ELSE IF segs[points[v].segment].start # v \/ s = 0
           THEN /\ err' = Thrown("Assertion failed", "findIntersectingSegment")
                /\ pc' = "failed"
                /\ UNCHANGED found
           ELSE /\ found' = s
                /\ UNCHANGED <<err, pc>>
    /\ ci' = ci + 1
    /\ UNCHANGED <<array, segs, points, hsegments, vsegments, hvertices,
                   vvertices, concaves, walked>>
    /\ UNCHANGED <<htree, vtree, hdiagonals, vdiagonals, crossings, selected,
                   nsplit>>
    /\ UNCHANGED treeVars

\* getContours returns
Return ==
    /\ pc = "refreshed"
    /\ ci = Len(concaves)
    /\ pc' = "done"
    /\ UNCHANGED <<err, array, segs, points, hsegments, vsegments, hvertices,
                   vvertices, concaves, walked>>
    /\ UNCHANGED <<htree, vtree, hdiagonals, vdiagonals, crossings, selected,
                   nsplit, ci, found>>
    /\ UNCHANGED treeVars

Next ==
    \/ ScanForHSegments
    \/ GetHVertices
    \/ ScanForVSegments
    \/ GetVVertices
    \/ SortVertices
    \/ GlueVertices
    \/ Walk
    \/ BuildTrees
    \/ GetHDiagonals
    \/ GetVDiagonals
    \/ SelectDiagonals
    \/ SplitSegment
    \/ RefreshTrees
    \/ SplitConcave
    \/ Return

Spec == Init /\ [][Next]_vars

NextScan ==
    \/ ScanForHSegments
    \/ GetHVertices
    \/ ScanForVSegments

SpecScan == InitScan /\ [][NextScan]_vars

-----------------------------------------------------------------------------
(* The chord scenario: findCrossings and selectDiagonals called on lists of *)
(* chords built directly with new Segment, as the tests do.                 *)

\* the most chords in a list
MaxChords == 2

\* a chord: its span <<lo, hi>> along its axis and its place on the other
ChordSpans == {p \in Coords \X Coords : p[1] < p[2]}

Chords == ChordSpans \X Coords

\* the order the lists are enumerated in (each list once, whatever the
\* order of its chords)
ChordLeq(a, b) ==
    \/ a[1][1] < b[1][1]
    \/ a[1][1] = b[1][1] /\ a[1][2] < b[1][2]
    \/ a[1] = b[1] /\ a[2] <= b[2]

ChordLists ==
    UNION {{l \in [1..n -> Chords] :
               \A k \in 1..(n - 1) : ChordLeq(l[k], l[k + 1])} :
           n \in 0..MaxChords}

\* new Segment([lo, y], [hi, y]) for each chord of the list
HEnds(l) == [k \in 1..Len(l) |-> Ends(l[k][1][1], l[k][2], l[k][1][2], l[k][2])]

\* new Segment([x, lo], [x, hi]) for each chord of the list
VEnds(l) == [k \in 1..Len(l) |-> Ends(l[k][2], l[k][1][1], l[k][2], l[k][1][2])]

InitChords ==
    /\ TreeIdle
    /\ \E hl \in ChordLists, vl \in ChordLists :
         LET h == AllocSegments(HEnds(hl), <<>>, <<>>)
             v == AllocSegments(VEnds(vl), h.segs, h.points)
         IN  /\ segs = v.segs
             /\ points = v.points
             /\ hdiagonals = h.ids
             /\ vdiagonals = v.ids
    /\ pc = "vdiagonals"
    /\ err = NoError
    /\ array = [shape |-> <<0, 0>>, data |-> <<>>]
    /\ hsegments = <<>>
    /\ vsegments = <<>>
    /\ hvertices = <<>>
    /\ vvertices = <<>>
    /\ concaves = <<>>
    /\ walked = <<>>
    /\ htree = Null
    /\ vtree = Null
    /\ crossings = <<>>
    /\ selected = <<>>
    /\ nsplit = 0
    /\ ci = 0
    /\ found = 0

\* crossings = findCrossings(horizontalDiagonals, verticalDiagonals)
FindCrossings ==
    /\ pc = "vdiagonals"
    /\ IF CrossingsThrow(hdiagonals, vdiagonals, segs, points)
       THEN /\ err' = Thrown("Assertion failed", "findCrossings")
            /\ pc' = "failed"
            /\ UNCHANGED crossings
       ELSE /\ crossings' = findCrossings(hdiagonals, vdiagonals, segs, points)
            /\ pc' = "crossed"
            /\ UNCHANGED err
    /\ UNCHANGED <<array, segs, points, hsegments, vsegments, hvertices,
                   vvertices, concaves, walked>>
    /\ UNCHANGED <<htree, vtree, hdiagonals, vdiagonals, selected, nsplit,
                   ci, found>>
    /\ UNCHANGED treeVars

NextChords ==
    \/ FindCrossings
    \/ SelectDiagonals

SpecChords == InitChords /\ [][NextChords]_vars

-----------------------------------------------------------------------------
(* Claims about the interval tree (checked under SpecTree) *)

Contains(iv, x) == iv.lo <= x /\ x <= iv.hi

TimesCalled(i) == Cardinality({k \in 1..Len(calls) : calls[k].item = i})

AllFalsy == \A k \in 1..Len(calls) : ~Truthy(calls[k].r)

StoredAtRoot(i) ==
    \E k \in 1..Len(tree.leftPoints) : tree.leftPoints[k].id = i

\* C1: with a visitor that only answers falsy, queryPoint(x, cb) calls cb
\* exactly once for every stored interval with lo <= x <= hi (an interval
\* given k times has k identities and is reported k times) and never for an
\* interval that does not contain x.
C1_StabReportsExactlyTheHits ==
    (tpc = "queried" /\ AllFalsy) =>
        \A i \in 1..Len(intervals) :
            TimesCalled(i) = IF Contains(intervals[i], qx) THEN 1 ELSE 0

\* a query at a shared endpoint of a duplicated interval, with a miss beside
C1_Witness ==
    /\ tpc = "queried" /\ AllFalsy
    /\ \E i, j, k \in 1..Len(intervals) :
         /\ i # j
         /\ intervals[i].lo = intervals[j].lo
         /\ intervals[i].hi = intervals[j].hi
         /\ intervals[i].lo < intervals[i].hi
         /\ qx = intervals[i].hi
         /\ TimesCalled(i) = 1 /\ TimesCalled(j) = 1
         /\ ~Contains(intervals[k], qx) /\ TimesCalled(k) = 0

\* C2: the first truthy answer r of the visitor is the last visitor call of
\* the whole query, and the outermost queryPoint returns exactly r; when no
\* answer is truthy the query returns a falsy value.
C2_TruthyAnswerStopsTheQuery ==
    tpc = "queried" =>
        /\ \A k \in 1..Len(calls) :
               Truthy(calls[k].r) => (k = Len(calls) /\ result = calls[k].r)
        /\ AllFalsy => ~Truthy(result)

\* a truthy answer given below the root while the root still holds an
\* interval containing the point, which is then never visited
C2_Witness ==
    /\ tpc = "queried"
    /\ Len(calls) >= 2
    /\ result = "r2"
    /\ ~StoredAtRoot(calls[Len(calls)].item)
    /\ \E i \in 1..Len(intervals) :
         /\ StoredAtRoot(i)
         /\ Contains(intervals[i], qx)
         /\ TimesCalled(i) = 0

-----------------------------------------------------------------------------
(* Claims about the scanners (C3 under SpecScan, the others under Spec) *)

Rows == array.shape[1]
Cols == array.shape[2]

\* the pixel at (row, col), the raster's exterior being background
Pix(row, col) ==
    IF 0 <= row /\ row < Rows /\ 0 <= col /\ col < Cols
    THEN get(array, row, col) ELSE 0

Fg(row, col) == Pix(row, col) # 0

StartX(id) == points[segs[id].start].x
StartY(id) == points[segs[id].start].y
EndX(id) == points[segs[id].end].x
EndY(id) == points[segs[id].end].y

EndsOf(ids) ==
    [k \in 1..Len(ids) |->
        Ends(StartX(ids[k]), StartY(ids[k]), EndX(ids[k]), EndY(ids[k]))]

\* the raster with every non-zero pixel set to 1
Binary(a) ==
    [a EXCEPT !.data =
        [r \in 1..a.shape[1] |->
            [c \in 1..a.shape[2] |-> IF a.data[r][c] = 0 THEN 0 ELSE 1]]]

\* hsegments and vsegments hold what the scanners emitted, nothing else
Scanned == pc \in {"vscanned", "vvertices", "sorted", "preprocessed"}

\* C3: the segment lists the scanners emit for a raster are those they emit
\* for the raster with every non-zero pixel replaced by 1, so two rasters
\* that agree on zero versus non-zero get identical lists.
C3_ScanSeesOnlyZeroOrNonZero ==
    pc = "vscanned" =>
        /\ EndsOf(hsegments) = scanForHSegments(Binary(array))
        /\ EndsOf(vsegments) = scanForVSegments(Binary(array))

\* a vertical segment on the wall x = i runs towards smaller y exactly along
\* foreground pixels of column i, towards larger y exactly along foreground
\* pixels of column i - 1
VOriented(id) ==
    /\ StartX(id) = EndX(id)
    /\ StartY(id) # EndY(id)
    /\ \A r \in segs[id].lo..(segs[id].hi - 1) :
         /\ (StartY(id) > EndY(id)) <=> Fg(r, StartX(id))
         /\ (StartY(id) < EndY(id)) <=> Fg(r, StartX(id) - 1)

\* a horizontal segment on the wall y = i runs towards larger x exactly
\* along foreground pixels of row i, towards smaller x exactly along
\* foreground pixels of row i - 1
HOriented(id) ==
    /\ StartY(id) = EndY(id)
    /\ StartX(id) # EndX(id)
    /\ \A c \in segs[id].lo..(segs[id].hi - 1) :
         /\ (StartX(id) < EndX(id)) <=> Fg(StartY(id), c)
         /\ (StartX(id) > EndX(id)) <=> Fg(StartY(id) - 1, c)

\* C4: every segment the scanners emit has the filled side on its right.
C4_FilledSideOnTheRight ==
    Scanned =>
        /\ \A k \in 1..Len(hsegments) : HOriented(hsegments[k])
        /\ \A k \in 1..Len(vsegments) : VOriented(vsegments[k])

\* segments of both senses on inner walls: the boundary of a hole or notch
C4_Witness ==
    /\ pc = "vscanned"
    /\ \E k \in 1..Len(vsegments) :
         /\ 0 < StartX(vsegments[k]) /\ StartX(vsegments[k]) < Cols
         /\ StartY(vsegments[k]) + 2 <= EndY(vsegments[k])
    /\ \E k \in 1..Len(vsegments) :
         /\ 0 < StartX(vsegments[k]) /\ StartX(vsegments[k]) < Cols
         /\ StartY(vsegments[k]) > EndY(vsegments[k])
    /\ \E k \in 1..Len(hsegments) :
         /\ 0 < StartY(hsegments[k]) /\ StartY(hsegments[k]) < Rows
         /\ StartX(hsegments[k]) > EndX(hsegments[k])
    /\ \E k \in 1..Len(hsegments) :
         /\ 0 < StartY(hsegments[k]) /\ StartY(hsegments[k]) < Rows
         /\ StartX(hsegments[k]) < EndX(hsegments[k])

\* the (left pixel, right pixel) pair of row r at the wall x = i, and the
\* (upper pixel, lower pixel) pair of column c at the wall y = i
VPattern(i, r) == <<Fg(r, i - 1), Fg(r, i)>>
HPattern(i, c) == <<Fg(i - 1, c), Fg(i, c)>>

\* the vertical segments lying on the unit edge of row r of the wall x = i
VOnEdge(i, r) ==
    {k \in 1..Len(vsegments) :
        /\ StartX(vsegments[k]) = i
        /\ segs[vsegments[k]].lo <= r /\ r < segs[vsegments[k]].hi}

HOnEdge(i, c) ==
    {k \in 1..Len(hsegments) :
        /\ StartY(hsegments[k]) = i
        /\ segs[hsegments[k]].lo <= c /\ c < segs[hsegments[k]].hi}

\* the segment is a whole run: the pattern is constant along it and
\* changes (or the raster ends) at both of its ends
VWholeRun(id) ==
    LET i == StartX(id) lo == segs[id].lo hi == segs[id].hi
    IN  /\ lo < hi
        /\ \A r \in (lo + 1)..(hi - 1) : VPattern(i, r) = VPattern(i, r - 1)
        /\ lo = 0 \/ VPattern(i, lo - 1) # VPattern(i, lo)
        /\ hi = Rows \/ VPattern(i, hi) # VPattern(i, hi - 1)

HWholeRun(id) ==
    LET i == StartY(id) lo == segs[id].lo hi == segs[id].hi
    IN  /\ lo < hi
        /\ \A c \in (lo + 1)..(hi - 1) : HPattern(i, c) = HPattern(i, c - 1)
        /\ lo = 0 \/ HPattern(i, lo - 1) # HPattern(i, lo)
        /\ hi = Cols \/ HPattern(i, hi) # HPattern(i, hi - 1)

\* C5: the vertical segments cover exactly the unit wall edges whose two
\* horizontally adjacent pixels differ, each such edge lying in exactly one
\* segment, and every segment is a whole run of one pattern; likewise the
\* horizontal segments, rows and columns exchanged.
C5_SegmentsAreTheBoundaryRuns ==
    Scanned =>
        /\ \A i \in 0..Cols, r \in 0..(Rows - 1) :
             Cardinality(VOnEdge(i, r)) =
                 IF Fg(r, i - 1) # Fg(r, i) THEN 1 ELSE 0
        /\ \A i \in 0..Rows, c \in 0..(Cols - 1) :
             Cardinality(HOnEdge(i, c)) =
                 IF Fg(i - 1, c) # Fg(i, c) THEN 1 ELSE 0
        /\ \A k \in 1..Len(vsegments) : VWholeRun(vsegments[k])
        /\ \A k \in 1..Len(hsegments) : HWholeRun(hsegments[k])

\* two segments meet end to end on one inner wall (the pattern flips
\* there), and another wall holds a segment longer than one pixel
C5_Witness ==
    /\ pc = "vscanned"
    /\ \E j, k \in 1..Len(vsegments) :
         /\ StartX(vsegments[j]) = StartX(vsegments[k])
         /\ segs[vsegments[j]].hi = segs[vsegments[k]].lo
    /\ \E j, k \in 1..Len(hsegments) :
         /\ StartY(hsegments[j]) = StartY(hsegments[k])
         /\ segs[hsegments[j]].hi = segs[hsegments[k]].lo
    /\ \E k \in 1..Len(vsegments) :
         segs[vsegments[k]].lo + 2 <= segs[vsegments[k]].hi

-----------------------------------------------------------------------------
(* Claims about stitching and walking (checked under Spec) *)

\* preprocess has returned
Stitched ==
    pc \in {"preprocessed", "walked", "trees", "hdiagonals", "vdiagonals",
            "selected", "refreshed", "done"}

Listed == {hsegments[k] : k \in 1..Len(hsegments)}
              \cup {vsegments[k] : k \in 1..Len(vsegments)}

Linked(id) ==
    /\ segs[id].next # 0
    /\ segs[id].prev # 0
    /\ segs[segs[id].next].prev = id
    /\ segs[segs[id].prev].next = id

\* C6: once preprocess has stitched the segments, and again after every
\* splitSegment call of getContours, every segment of hsegments and
\* vsegments has a next and a prev, with s.next.prev = s and s.prev.next = s.
C6_NextAndPrevAreInverse ==
    Stitched => \A id \in Listed : Linked(id)

\* two chords have been split, the last of the selected ones
C6_Witness ==
    /\ pc = "selected"
    /\ nsplit >= 2
    /\ nsplit = Len(selected)
    /\ \E k \in 1..Len(selected) : segs[selected[k]].direction = VERTICAL

\* the segments whose start vertices walk returned
Walked == [k \in 1..Len(walked) |-> points[walked[k]].segment]

\* C7: on the stitched segments, walk(s) from an unvisited segment s makes
\* at most as many steps as there are segments, never fails with
\* 'Not a loop.', returns the start vertices of the segments of s's loop,
\* once each in next order and back to s, and marks exactly those visited,
\* so that a later walk from any of them returns an empty list.
C7_WalkReturnsTheLoop ==
    /\ err.message # "Not a loop."
    /\ pc = "walked" =>
        /\ 1 <= Len(walked)
        /\ Len(walked) <= Len(hsegments) + Len(vsegments)
        /\ \A k \in 1..Len(walked) : segs[Walked[k]].start = walked[k]
        /\ \A k \in 1..(Len(walked) - 1) : segs[Walked[k]].next = Walked[k + 1]
        /\ segs[Walked[Len(walked)]].next = Walked[1]
        /\ \A j, k \in 1..Len(walked) : j # k => Walked[j] # Walked[k]
        /\ \A id \in 1..Len(segs) :
             segs[id].visited <=> \E k \in 1..Len(walked) : Walked[k] = id
        /\ \A k \in 1..Len(walked) :
             walk(Walked[k], segs, points).result = <<>>
        /\ \A id \in Listed :
             ~segs[id].visited =>
                 LET w == walk(id, segs, points)
                 IN  /\ w.err = ""
                     /\ 1 <= Len(w.result)
                     /\ Len(w.result) <= Len(hsegments) + Len(vsegments)
                     /\ w.result[1] = segs[id].start

\* a loop of six corners or more was walked and another loop was not
C7_Witness ==
    /\ pc = "walked"
    /\ Len(walked) >= 6
    /\ \E id \in Listed : ~segs[id].visited

\* how many of the four pixels around the grid corner (x, y) are foreground
FgAround(x, y) ==
    Cardinality({d \in {0, 1} \X {0, 1} : Fg(y - 1 + d[1], x - 1 + d[2])})

VerticesAt(x, y) ==
    {p \in 1..Len(points) :
        points[p].ctor = "Vertex" /\ points[p].x = x /\ points[p].y = y}

\* C8: preprocess marks a vertex concave exactly when three of the four
\* pixels around its corner are foreground (two vertices coincide there),
\* and concaves holds one vertex, the OUTGOING one, for each such corner
\* and nothing else.
C8_ConcaveIffThreeForeground ==
    pc = "preprocessed" =>
        /\ \A p \in 1..Len(points) :
             points[p].ctor = "Vertex" =>
                 /\ points[p].concave # "null"
                 /\ points[p].concave = "true"
                        <=> FgAround(points[p].x, points[p].y) = 3
        /\ \A k \in 1..Len(concaves) :
             /\ points[concaves[k]].orientation = OUTGOING
             /\ points[concaves[k]].concave = "true"
        /\ \A x \in 0..Cols, y \in 0..Rows :
             FgAround(x, y) = 3 =>
                 /\ Cardinality(VerticesAt(x, y)) = 2
                 /\ Cardinality({k \in 1..Len(concaves) :
                                    concaves[k] \in VerticesAt(x, y)}) = 1

\* a raster with a three-foreground corner, a one-foreground corner and a
\* checkerboard corner, whose four vertices are all marked non-concave
C8_Witness ==
    /\ pc = "preprocessed"
    /\ Len(concaves) >= 1
    /\ \E x \in 0..Cols, y \in 0..Rows : FgAround(x, y) = 1
    /\ \E x \in 0..Cols, y \in 0..Rows :
         /\ FgAround(x, y) = 2
         /\ Cardinality(VerticesAt(x, y)) = 4
         /\ \A p \in VerticesAt(x, y) : points[p].concave = "false"

Sorted == Stitched \/ pc = "sorted"

\* C9: the two vertex lists have equal length, the i-th vertex of the
\* sorted horizontal list and the i-th of the sorted vertical list share
\* their position and have opposite orientations, and no assertion of
\* preprocess or of the two comparators fails.
C9_SortedListsPairUp ==
    /\ err.by \notin {"preprocess", "compareHVertices", "compareVVertices"}
    /\ pc = "vvertices" => Len(hvertices) = Len(vvertices)
    /\ Sorted =>
        /\ Len(hvertices) = Len(vvertices)
        /\ \A i \in 1..Len(hvertices) :
             /\ points[hvertices[i]].x = points[vvertices[i]].x
             /\ points[hvertices[i]].y = points[vvertices[i]].y
             /\ {points[hvertices[i]].orientation,
                 points[vvertices[i]].orientation} = {OUTGOING, INCOMING}

\* sorted lists in which two horizontal vertices share a corner, the ties
\* being broken by direction
C9_Witness ==
    /\ pc = "sorted"
    /\ \E i \in 1..(Len(hvertices) - 1) :
         /\ points[hvertices[i]].x = points[hvertices[i + 1]].x
         /\ points[hvertices[i]].y = points[hvertices[i + 1]].y
         /\ points[vvertices[i]].orientation = INCOMING
    /\ \E i \in 1..(Len(hvertices) - 1) :
         /\ points[hvertices[i]].x = points[hvertices[i + 1]].x
         /\ points[hvertices[i]].y = points[hvertices[i + 1]].y
         /\ points[vvertices[i]].orientation = OUTGOING

-----------------------------------------------------------------------------
(* Claims about the chords (C11 and C12 under SpecChords) *)

HChords == {hdiagonals[k] : k \in 1..Len(hdiagonals)}
VChords == {vdiagonals[k] : k \in 1..Len(vdiagonals)}

\* the pairs findCrossings reported
Reported == {<<crossings[k].horizontal, crossings[k].vertical>> :
                k \in 1..Len(crossings)}

SelectedSet == {selected[k] : k \in 1..Len(selected)}

\* no reported crossing has both of its chords in c
CrossingFree(c) == \A e \in Reported : ~(e[1] \in c /\ e[2] \in c)

\* the size of a largest set of reported crossings no two of which share a
\* chord
MaxMatching ==
    LET matchings == {m \in SUBSET Reported :
                         \A e, f \in m :
                             e # f => (e[1] # f[1] /\ e[2] # f[2])}
    IN  CHOOSE n \in 0..Cardinality(Reported) :
            /\ \E m \in matchings : Cardinality(m) = n
            /\ \A m \in matchings : Cardinality(m) <= n

\* C11: selectDiagonals returns chords of the two lists, none twice, the
\* horizontal ones before the vertical ones, no two of them forming a
\* crossing findCrossings reported, and as many as any crossing-free set
\* has: |H| + |V| minus the size of a maximum matching of the crossings.
C11_SelectedIsLargestCrossingFree ==
    pc = "selected" =>
        /\ SelectedSet \subseteq HChords \cup VChords
        /\ Cardinality(SelectedSet) = Len(selected)
        /\ \A j, k \in 1..Len(selected) :
             (j < k /\ selected[k] \in HChords) => selected[j] \in HChords
        /\ CrossingFree(SelectedSet)
        /\ \A c \in SUBSET (HChords \cup VChords) :
             CrossingFree(c) => Cardinality(c) <= Len(selected)
        /\ Len(selected) =
               Len(hdiagonals) + Len(vdiagonals) - MaxMatching

\* two horizontal and two vertical chords, every pair reported as crossing:
\* two of the four are selected
C11_Witness ==
    /\ pc = "selected"
    /\ Len(hdiagonals) = 2
    /\ Len(vdiagonals) = 2
    /\ Len(crossings) = 4
    /\ Len(selected) = 2

\* the open interiors of the horizontal chord h and the vertical chord v
\* intersect
InteriorsMeet(h, v) ==
    /\ segs[h].lo < StartX(v) /\ StartX(v) < segs[h].hi
    /\ segs[v].lo < StartY(h) /\ StartY(h) < segs[v].hi

\* C12: findCrossings returns one SegmentCrossing for each pair (h, v)
\* whose open interiors intersect and no other pair; a vertical chord
\* through an endpoint of h makes no crossing with h.
C12_CrossingsAreTheInteriorMeets ==
    pc = "crossed" =>
        \A i \in 1..Len(hdiagonals), j \in 1..Len(vdiagonals) :
            Cardinality({k \in 1..Len(crossings) :
                            /\ crossings[k].horizontal = hdiagonals[i]
                            /\ crossings[k].vertical = vdiagonals[j]})
                = IF InteriorsMeet(hdiagonals[i], vdiagonals[j])
                  THEN 1 ELSE 0

-----------------------------------------------------------------------------
(* Claims about getDiagonals (checked under Spec) *)

Concaves == {concaves[k] : k \in 1..Len(concaves)}

SamePlace(p, q) == points[p].x = points[q].x /\ points[p].y = points[q].y

\* the chords getDiagonals has emitted, none of them split yet
ChordsEmitted == pc \in {"hdiagonals", "vdiagonals"}

\* the boundary segments of the other orientation than direction
Perpendicular(direction) ==
    IF direction = HORIZONTAL
    THEN {vsegments[k] : k \in 1..Len(vsegments)}
    ELSE {hsegments[k] : k \in 1..Len(hsegments)}

\* the chord d, emitted for the axis direction, joins two concave vertices
\* on one line of that axis, which no polygon edge joins and between which
\* no perpendicular boundary segment touches or crosses the line
ProperChord(d, direction) ==
    LET a == segs[d].start
        b == segs[d].end
        line == Coord(points[a], 1 - direction)
    IN  /\ segs[d].direction = direction
        /\ a \in Concaves /\ b \in Concaves
        /\ Coord(points[b], 1 - direction) = line
        /\ Coord(points[a], direction) < Coord(points[b], direction)
        /\ \A s \in Listed :
             ~ \/ SamePlace(segs[s].start, a) /\ SamePlace(segs[s].end, b)
               \/ SamePlace(segs[s].start, b) /\ SamePlace(segs[s].end, a)
        /\ \A s \in Perpendicular(direction) :
             ~ /\ segs[s].lo <= line /\ line <= segs[s].hi
               /\ Coord(points[a], direction)
                      < Coord(points[segs[s].start], direction)
               /\ Coord(points[segs[s].start], direction)
                      < Coord(points[b], direction)

\* C13: every chord getDiagonals emits for an axis joins two vertices of
\* the concave list that share the coordinate on the other axis, are not
\* the two ends of one polygon edge, and have no perpendicular boundary
\* segment touching or crossing the chord's line strictly between them.
C13_ChordsAreProper ==
    ChordsEmitted =>
        /\ \A k \in 1..Len(hdiagonals) : ProperChord(hdiagonals[k], HORIZONTAL)
        /\ \A k \in 1..Len(vdiagonals) : ProperChord(vdiagonals[k], VERTICAL)

\* chords of both axes were emitted, while two concave vertices of one row
\* got no chord
C13_Witness ==
    /\ pc = "vdiagonals"
    /\ Len(hdiagonals) >= 1
    /\ Len(vdiagonals) >= 1
    /\ \E a, b \in Concaves :
         /\ points[a].y = points[b].y
         /\ points[a].x < points[b].x
         /\ \A k \in 1..Len(hdiagonals) : segs[hdiagonals[k]].start # a

\* every unit piece of the chord d has a foreground pixel on both sides
InsideForeground(d) ==
    IF segs[d].direction = HORIZONTAL
    THEN \A c \in segs[d].lo..(segs[d].hi - 1) :
             Fg(StartY(d) - 1, c) /\ Fg(StartY(d), c)
    ELSE \A r \in segs[d].lo..(segs[d].hi - 1) :
             Fg(r, StartX(d) - 1) /\ Fg(r, StartX(d))

\* C14: every chord getDiagonals emits lies in the interior of the
\* foreground: each unit piece of it has a foreground pixel on both sides.
C14_ChordsRunInsideForeground ==
    pc \in {"hdiagonals", "vdiagonals", "selected", "refreshed", "done"} =>
        /\ \A k \in 1..Len(hdiagonals) : InsideForeground(hdiagonals[k])
        /\ \A k \in 1..Len(vdiagonals) : InsideForeground(vdiagonals[k])

\* a horizontal chord two pixels long, strictly inside the raster
C14_Witness ==
    /\ pc = "vdiagonals"
    /\ \E k \in 1..Len(hdiagonals) :
         /\ segs[hdiagonals[k]].lo + 2 <= segs[hdiagonals[k]].hi
         /\ 0 < StartY(hdiagonals[k]) /\ StartY(hdiagonals[k]) < Rows

-----------------------------------------------------------------------------
(* Claims about the outcome of getContours (checked under Spec) *)

\* the step of the segment s, from its start to its end
Dx(s) == EndX(s) - StartX(s)
Dy(s) == EndY(s) - StartY(s)

\* the turn from s into t: positive towards the filled (right) side, zero
\* when collinear, negative for a reflex turn
Turn(s, t) == Dx(s) * Dy(t) - Dy(s) * Dx(t)

\* the segment reached from s by k steps of next (0 once next is null)
RECURSIVE NextTimes(_, _)
NextTimes(s, k) ==
    IF k = 0 \/ s = 0 THEN s ELSE NextTimes(segs[s].next, k - 1)

\* the loop of s is a rectangle: four segments, each turning right
ConvexRectangle(s) ==
    /\ NextTimes(s, 4) = s
    /\ \A k \in 1..3 : NextTimes(s, k) # s
    /\ \A k \in 0..3 :
         LET t == NextTimes(s, k)
         IN  t # 0 /\ segs[t].next # 0 /\ Turn(t, segs[t].next) > 0

\* C15: when getContours has finished chord splitting and concave
\* resolution, no vertex is marked concave any more and every loop of next
\* links has exactly four corners, all convex.
C15_AllLoopsAreConvexRectangles ==
    pc = "done" =>
        /\ \A p \in 1..Len(points) : points[p].concave # "true"
        /\ \A s \in Listed : ConvexRectangle(s)

\* the segments of the loop of s, a rectangle
Rectangle(s) == {NextTimes(s, k) : k \in 0..3}

\* the rectangle covers the pixel (row, col)
Covers(rect, row, col) ==
    /\ \E s \in rect : StartX(s) <= col
    /\ \E s \in rect : col < StartX(s)
    /\ \E s \in rect : StartY(s) <= row
    /\ \E s \in rect : row < StartY(s)

\* C16: the loops getContours leaves are rectangles with pairwise disjoint
\* interiors whose union is the set of foreground pixels: every foreground
\* pixel lies in exactly one of them and no background pixel in any, so
\* rasterizing them reproduces the input raster.
C16_RectanglesTileTheForeground ==
    pc = "done" =>
        /\ \A s \in Listed : ConvexRectangle(s)
        /\ \A row \in 0..(Rows - 1), col \in 0..(Cols - 1) :
             Cardinality({Rectangle(s) : s \in {t \in Listed :
                              Covers(Rectangle(t), row, col)}})
                 = IF Fg(row, col) THEN 1 ELSE 0

-----------------------------------------------------------------------------
(* Claims about the loops preprocess stitches (checked under Spec) *)

\* the segments reached from s by next links, s included
RECURSIVE LoopFrom(_, _, _)
LoopFrom(s, acc, k) ==
    IF k = 0 \/ s = 0 \/ s \in acc THEN acc
    ELSE LoopFrom(segs[s].next, acc \cup {s}, k - 1)

\* the loops of next links, each the set of its segments: what walking
\* from every unvisited segment in turn finds
Loops == {LoopFrom(s, {}, Len(segs)) : s \in Listed}

\* the grid corners at which a vertex is marked concave
ConcaveCorners ==
    {<<points[p].x, points[p].y>> :
        p \in {q \in 1..Len(points) : points[q].concave = "true"}}

\* the 4x4 raster with two holes that touch diagonally
TwoDiagonalHoles ==
    Raster(<< <<1, 1, 1, 1>>, <<1, 1, 0, 1>>,
              <<1, 0, 1, 1>>, <<1, 1, 1, 1>> >>)

Cells == (0..(Rows - 1)) \X (0..(Cols - 1))

\* edge neighbours, and edge or corner neighbours
Adjacent4(p, q) ==
    \/ p[1] = q[1] /\ (p[2] - q[2] = 1 \/ q[2] - p[2] = 1)
    \/ p[2] = q[2] /\ (p[1] - q[1] = 1 \/ q[1] - p[1] = 1)

Adjacent8(p, q) ==
    /\ p # q
    /\ p[1] - q[1] \in {-1, 0, 1}
    /\ p[2] - q[2] \in {-1, 0, 1}

\* the 4-connected component of foreground pixels around the set
RECURSIVE FgComponent(_)
FgComponent(set) ==
    LET more == set \cup {q \in Cells :
                    Fg(q[1], q[2]) /\ \E p \in set : Adjacent4(p, q)}
    IN  IF more = set THEN set ELSE FgComponent(more)

\* the 8-connected component of background pixels around the set
RECURSIVE BgComponent(_)
BgComponent(set) ==
    LET more == set \cup {q \in Cells :
                    ~Fg(q[1], q[2]) /\ \E p \in set : Adjacent8(p, q)}
    IN  IF more = set THEN set ELSE BgComponent(more)

OnBorder(p) ==
    p[1] = 0 \/ p[1] = Rows - 1 \/ p[2] = 0 \/ p[2] = Cols - 1

FgComponents == {FgComponent({p}) : p \in {q \in Cells : Fg(q[1], q[2])}}

\* the holes: background components with no pixel on the raster border
Holes ==
    {c \in {BgComponent({p}) : p \in {q \in Cells : ~Fg(q[1], q[2])}} :
        \A p \in c : ~OnBorder(p)}

\* C18: after preprocess the number of loops of next links is the number
\* of 4-connected components of foreground pixels plus the number of
\* 8-connected components of background pixels that have no pixel on the
\* raster border.
C18_LoopsCountComponentsAndHoles ==
    pc = "preprocessed" =>
        Cardinality(Loops) = Cardinality(FgComponents) + Cardinality(Holes)

\* a raster whose one hole is two background pixels that touch only
\* diagonally, inside one component of foreground
C18_Witness ==
    /\ pc = "preprocessed"
    /\ Cardinality(FgComponents) = 1
    /\ Cardinality(Loops) = 2
    /\ \E c \in Holes :
         /\ Cardinality(c) = 2
         /\ \E p \in c, q \in c : p # q /\ ~Adjacent4(p, q)

-----------------------------------------------------------------------------
(* Claims about splitSegment (checked under Spec) *)

\* a step in which splitSegment ran to its end on the next selected chord
SplitStep ==
    /\ pc = "selected"
    /\ nsplit < Len(selected)
    /\ nsplit' = nsplit + 1
    /\ pc' = "selected"

\* C19: splitSegment(c) for a chord c from A to B, with sA = A.segment,
\* sB = B.segment and spA, spB their prev at the time of the call, ends with
\* spA.next = c, c.prev = spA, c.next = sB, sB.prev = c, spB.next = c',
\* c'.prev = spB, c'.next = sA, sA.prev = c', c' being the new reverse
\* segment from B to A, and changes next and prev of no other segment.
C19_SplitSegmentRewiresOnlySix ==
    [][SplitStep =>
        LET c == selected[nsplit + 1]
            A == segs[c].start
            B == segs[c].end
            sA == points[A].segment
            sB == points[B].segment
            spA == segs[sA].prev
            spB == segs[sB].prev
            c2 == Len(segs) + 1
        IN  /\ Len(segs') = c2
            /\ points'[segs'[c2].start].x = points[B].x
            /\ points'[segs'[c2].start].y = points[B].y
            /\ points'[segs'[c2].end].x = points[A].x
            /\ points'[segs'[c2].end].y = points[A].y
            /\ segs'[spA].next = c /\ segs'[c].prev = spA
            /\ segs'[c].next = sB /\ segs'[sB].prev = c
            /\ segs'[spB].next = c2 /\ segs'[c2].prev = spB
            /\ segs'[c2].next = sA /\ segs'[sA].prev = c2
            /\ \A s \in (1..Len(segs)) \ {spA, spB, sA, sB, c} :
                 /\ segs'[s].next = segs[s].next
                 /\ segs'[s].prev = segs[s].prev]_vars

\* a chord has been split: it and its reverse are wired into the loops,
\* and some segment of the contour was left as it was
C19_Witness ==
    /\ pc = "selected"
    /\ nsplit >= 1
    /\ LET c == selected[nsplit]
       IN  /\ segs[c].prev # 0 /\ segs[c].next # 0
           /\ segs[segs[c].prev].next = c
           /\ segs[segs[c].next].prev = c
           /\ \E r \in 1..Len(segs) :
                /\ SamePlace(segs[r].start, segs[c].end)
                /\ SamePlace(segs[r].end, segs[c].start)
                /\ segs[segs[r].next].prev = r
                /\ segs[segs[r].prev].next = r
           /\ Cardinality(Listed) > 6

\* every selected chord has been split
AllSplit ==
    \/ pc = "selected" /\ nsplit = Len(selected)
    \/ pc \in {"refreshed", "done"}

\* the vertices at the two ends of the selected chords
SelectedEnds ==
    UNION {{segs[selected[i]].start, segs[selected[i]].end} :
              i \in 1..Len(selected)}

\* C20: once splitSegment has been applied to all selected chords, every
\* selected chord endpoint is convex: its vertices are marked non-concave
\* and every pair of consecutive segments (s, s.next) meeting there is
\* collinear or turns to the filled (right) side, never reflex, also where
\* a selected horizontal and a selected vertical chord meet.
C20_SelectedEndpointsAreConvex ==
    AllSplit =>
        \A e \in SelectedEnds :
            /\ points[e].concave = "false"
            /\ \A s \in Listed :
                 (/\ segs[s].next # 0
                  /\ SamePlace(segs[s].end, e)
                  /\ SamePlace(segs[segs[s].next].start, e))
                    => Turn(s, segs[s].next) >= 0

-----------------------------------------------------------------------------
(* Claims about vertices, the concave resolver and the loops under
   splitting (checked under Spec) *)

\* the vertex v belongs to the segment s in the given orientation and
\* carries the sense of s
VertexOf(v, s, orientation) ==
    /\ points[v].ctor = "Vertex"
    /\ points[v].orientation = orientation
    /\ points[v].segment = s
    /\ points[v].direction = getVertexDirection(segs[s], points)

\* C21: for every segment s held in hsegments or vsegments, s.start is an
\* OUTGOING Vertex whose segment is s and s.end is an INCOMING Vertex whose
\* segment is s, both carrying the sense of s; getVertices establishes this
\* and it still holds, the two chord segments included, after each
\* splitSegment.
C21_EndsAreOwnVertices ==
    Stitched =>
        \A s \in Listed :
            /\ VertexOf(segs[s].start, s, OUTGOING)
            /\ VertexOf(segs[s].end, s, INCOMING)

\* the vertex the last call of findIntersectingSegment was made for
Resolved == concaves[ci]

ResolverRan ==
    /\ pc \in {"refreshed", "done"}
    /\ ci >= 1
    /\ points[Resolved].concave = "true"

\* the coordinate of the segment s, and of the vertex v, along the axis
\* of v's outgoing segment; the coordinate of v on the other axis
AlongOf(s, v) ==
    Coord(points[segs[s].start], segs[points[v].segment].direction)

Along(v) == Coord(points[v], segs[points[v].segment].direction)

Across(v) == Coord(points[v], 1 - segs[points[v].segment].direction)

\* the segments perpendicular to v's outgoing segment whose closed span
\* holds v's coordinate on the other axis and that lie strictly behind v
Behind(v) ==
    {s \in Listed :
        /\ segs[s].direction = 1 - segs[points[v].segment].direction
        /\ segs[s].lo <= Across(v) /\ Across(v) <= segs[s].hi
        /\ IF points[v].direction = POSITIVE
           THEN AlongOf(s, v) < Along(v)
           ELSE AlongOf(s, v) > Along(v)}

\* C22: for every vertex still marked concave after chord splitting,
\* findIntersectingSegment finds a segment, its non-null assertion never
\* failing, and the segment is the nearest of the perpendicular segments
\* strictly behind the vertex whose closed span holds the vertex: greatest
\* coordinate below it when POSITIVE, least above it when NEGATIVE.
C22_ResolverFindsNearestBehind ==
    /\ err.by # "findIntersectingSegment"
    /\ ResolverRan =>
        /\ found \in Behind(Resolved)
        /\ \A s \in Behind(Resolved) :
             IF points[Resolved].direction = POSITIVE
             THEN AlongOf(s, Resolved) <= AlongOf(found, Resolved)
             ELSE AlongOf(s, Resolved) >= AlongOf(found, Resolved)

\* the resolver ran for a vertex with segments at two distances behind it
C22_Witness ==
    /\ ResolverRan
    /\ found # 0
    /\ \E s \in Behind(Resolved) :
         AlongOf(s, Resolved) # AlongOf(found, Resolved)

\* the chords selectDiagonals returned, none of them split yet
SelectedUnsplit == pc = "selected" /\ nsplit = 0

\* two chords have an endpoint vertex in common
ShareEndpoint(c, d) ==
    {segs[c].start, segs[c].end} \cap {segs[d].start, segs[d].end} # {}

\* C23: no concave vertex is an endpoint of more than one chord of the set
\* getContours obtains from selectDiagonals: a horizontal and a vertical
\* chord that start or end at the same concave vertex are never both
\* selected.
C23_SelectedShareNoEndpoint ==
    SelectedUnsplit =>
        \A i \in 1..Len(selected), j \in 1..Len(selected) :
            i # j => ~ShareEndpoint(selected[i], selected[j])

\* C24: each splitSegment call on a chord with distinct endpoints A and B
\* changes the number of loops of next links by exactly one: one more when
\* the outgoing segments of A and B lie on the same loop before the call,
\* one less, the two loops merging, when they lie on different loops; the
\* number of segments grows by exactly two.
C24_SplitChangesLoopsByOne ==
    [][SplitStep =>
        LET c == selected[nsplit + 1]
            sA == points[segs[c].start].segment
            sB == points[segs[c].end].segment
        IN  /\ Cardinality(Listed') = Cardinality(Listed) + 2
            /\ Cardinality(Loops') = Cardinality(Loops)
                    + (IF sB \in LoopFrom(sA, {}, Len(segs))
                       THEN 1 ELSE -1)]_vars

\* the one chord of a raster with a hole is split and the loops are one
\* fewer than preprocess stitched: the chord joined the hole's loop to the
\* outer boundary
C24_Witness ==
    /\ pc = "selected"
    /\ nsplit = 1
    /\ Cardinality(Holes) = 1
    /\ Cardinality(FgComponents) = 1
    /\ Cardinality(Loops) = 1
    /\ Cardinality(Listed) > 6

-----------------------------------------------------------------------------
(* Claims about createIntervalTree (checked under SpecTree) *)

\* the nodes of the tree t, each with its subtrees
RECURSIVE Nodes(_)
Nodes(t) ==
    IF t = Null THEN {} ELSE {t} \cup Nodes(t.left) \cup Nodes(t.right)

\* the identities a list of a node holds
IdsIn(l) == {l[k].id : k \in 1..Len(l)}

TreeBuilt == tpc \in {"built", "queried"}

\* C25: createIntervalTree terminates for every finite list of intervals
\* with lo <= hi: at every node mid is an endpoint of some interval of that
\* node, so the straddling set is not empty and both recursive calls get
\* strictly fewer intervals; every input interval is stored in exactly one
\* node, whose mid it contains; left-subtree intervals end below mid and
\* right-subtree intervals start above it.
C25_TreeIsAWellFoundedPartition ==
    TreeBuilt =>
        /\ \A n \in Nodes(tree) :
             /\ \E i \in TreeIds(n) :
                    n.mid \in {intervals[i].lo, intervals[i].hi}
             /\ n.leftPoints # <<>>
             /\ Cardinality(TreeIds(n.left)) < Cardinality(TreeIds(n))
             /\ Cardinality(TreeIds(n.right)) < Cardinality(TreeIds(n))
             /\ Cardinality(IdsIn(n.leftPoints)) = Len(n.leftPoints)
             /\ Cardinality(IdsIn(n.rightPoints)) = Len(n.rightPoints)
             /\ IdsIn(n.rightPoints) = IdsIn(n.leftPoints)
             /\ \A i \in IdsIn(n.leftPoints) : Contains(intervals[i], n.mid)
             /\ \A i \in TreeIds(n.left) : intervals[i].hi < n.mid
             /\ \A i \in TreeIds(n.right) : intervals[i].lo > n.mid
        /\ \A i \in 1..Len(intervals) :
             Cardinality({n \in Nodes(tree) : i \in IdsIn(n.leftPoints)}) = 1

\* a tree three nodes deep, every call having passed on fewer intervals
C25_Witness ==
    /\ TreeBuilt
    /\ Len(intervals) = 3
    /\ \E n \in Nodes(tree), m \in Nodes(tree) :
         /\ n # tree /\ m # tree /\ n # m
         /\ m \in Nodes(n)

\* the endpoints of the intervals with identities in ids that are below v,
\* and those that are v or below, counted with multiplicity
EndsBelow(ids, v) ==
    Cardinality({i \in ids : intervals[i].lo < v})
        + Cardinality({i \in ids : intervals[i].hi < v})

EndsUpTo(ids, v) ==
    Cardinality({i \in ids : intervals[i].lo <= v})
        + Cardinality({i \in ids : intervals[i].hi <= v})

\* v is the element at index floor(k/2), counting from 0, of the k
\* endpoints of those intervals in ascending numeric order
NumericMedian(ids, v) ==
    /\ EndsBelow(ids, v) <= Cardinality(ids)
    /\ Cardinality(ids) < EndsUpTo(ids, v)

\* C26: at every node built by createIntervalTree, mid is the median of
\* the node's interval endpoints: the element at index floor(k/2) of the k
\* endpoints in ascending numeric order, also when endpoints have different
\* numbers of decimal digits, as 2 and 10.
C26_MidIsNumericMedian ==
    TreeBuilt =>
        \A n \in Nodes(tree) : NumericMedian(TreeIds(n), n.mid)

====
